---- MODULE Spec2Model ----
(***************************************************************************)
(* The asynchronous request orchestration of contribnote:                  *)
(* OpenAIClient.generate_commentary_batch and the code it runs for every   *)
(* request (generate_commentary, _make_request, _poll_response_status,     *)
(* _parse_response), src/src/openai_client.py.                             *)
(*                                                                         *)
(* One asyncio event loop runs the batch: a task runs without interruption *)
(* from one await that suspends to the next, so every action below is the  *)
(* code a task executes between two suspension points (a POST or GET in    *)
(* flight, a sleep, a wait on the semaphore).                              *)
(*                                                                         *)
(* A Python string is a sequence of text pieces: "" is << >>, and          *)
(* concatenation (an f-string) is \o.                                      *)
(***************************************************************************)
EXTENDS Integers, Sequences, FiniteSets, TLC

\* ------------------------------------------------------------------ bounds
MaxRequests == 2          \* requests in one batch
MaxLimit == 1             \* configured concurrency limits 1..MaxLimit (and the default)
MaxBatchFaults == 2       \* departures from the plain course, per batch of several requests
MaxExecFaults == 6        \* departures from the plain course, for a single request
MaxAttempt == 7           \* _calculate_backoff is applied to attempts 0..MaxAttempt
JitterSteps == 4          \* and to JitterSteps + 1 evenly spaced random draws
MaxAnnotations == 3       \* annotations of a text handed to _parse_response
MaxPhase == 3             \* requests in one phase of a run of the application
MaxRouted == 2            \* requests whose results are routed to portfolios
MaxSecurities == 3        \* securities of a portfolio handed to the selection
MaxN == 2                 \* the n of select_top_bottom is in 0..MaxN
MaxSelected == 2          \* selected securities handed to the output writer
MaxRuns == 2              \* generation runs started one after another
MaxProgress == 2          \* requests counted by a progress event
MaxEvents == 1            \* progress events of one generation run
MaxPuts == 4              \* progress events and callbacks queued before and between drains
MaxDrains == 2            \* drains of the two queues
MaxPolls == 2             \* clock readings and status answers handed to _poll_response_status
MaxLiveFaults == 2        \* departures from the plain course, per batch run under fair scheduling

\* ------------------------------------------------------- program constants
max_retries == 5          \* _make_request: max_retries = 5
max_concurrent == 20      \* RateLimitConfig.max_concurrent
\* Durations are in milliseconds.
initial_backoff == 1000   \* RateLimitConfig.initial_backoff = 1.0
max_backoff == 60000      \* RateLimitConfig.max_backoff = 60.0
jitter_percent == 20      \* RateLimitConfig.jitter_factor = 0.2
poll_interval == 2000     \* _poll_response_status: poll_interval = 2.0

None == [type |-> "None"]

\* The requests a caller submits: dicts with ticker, prompt, portcode.  The
\* i-th request is for portfolio i, and its prompt is rendered for that
\* portfolio and ticker; the first two portfolios hold the same ticker.
Ticker(i) == IF i <= 2 THEN "AAPL" ELSE "MSFT"
Descriptor(i) ==
    [portcode |-> i, ticker |-> Ticker(i),
     prompt |-> [portcode |-> i, ticker |-> Ticker(i)]]

RequestLists == { [i \in 1..n |-> Descriptor(i)] : n \in 0..MaxRequests }

Limits == (1..MaxLimit) \cup {max_concurrent}

VARIABLES
    requests,        \* the list handed to generate_commentary_batch
    limit,           \* rate_limit.max_concurrent of the client
    has_callback,    \* whether the client was built with a progress_callback
    cancel_event,    \* the caller's cancellation signal (an asyncio.Event): set or not
    cancel_at_start, \* whether the signal was set when the batch call began
    faults_left,     \* departures from the plain course the environment may still make
    batch,           \* "idle" | "running" | "returned" | "raised"
    semaphore,       \* value of asyncio.Semaphore(max_concurrent)
    holding,         \* tasks inside `async with semaphore`
    pc,              \* per task: "waiting" | "post" | "backoff" | "get" | "poll_sleep" | "done"
    attempt,         \* per task: loop variable of `for attempt in range(max_retries)`
    posts,           \* per task: POST calls issued on the transport
    gets,            \* per task: status GET calls issued on the transport
    last_resp,       \* per task: the answer to its latest call, "none" while the call is in flight
    exec_exc,        \* per task: the exception _make_request raised, or None
    task_out,        \* gather's slots: what each task returned or raised
    completed,       \* the nonlocal completed counter
    progress,        \* the progress_callback invocations, in order
    finish_order,    \* the tasks in the order in which they ended
    final_results,   \* the list the batch call returns
    exec_ret,        \* per task: the payload _make_request returned, or None
    retry_after,     \* per task: the Retry-After header of the 429 response it is handling
    retry_sleeps,    \* per task: asyncio.sleep calls of _make_request (before a retry)
    sleeping,        \* per task: the asyncio.sleep it is suspended in, or None
    polls,           \* per task: status GETs of the current _poll_response_status call
    poll_sleeps,     \* per task: asyncio.sleep calls of the current _poll_response_status call
    elapsed_over,    \* per task: the poller last read the clock with elapsed > max_wait
    call,            \* the latest call of a pure function: its arguments and result
    app              \* the application (CommentaryGeneratorApp) and its run, or None

vars == << requests, limit, has_callback, cancel_event, cancel_at_start,
           faults_left, batch,
           semaphore, holding, pc, attempt, posts, gets, last_resp, exec_exc,
           task_out, completed, progress, finish_order, final_results,
           exec_ret, retry_after, retry_sleeps, sleeping, polls, poll_sleeps,
           elapsed_over, call, app >>

\* What a step outside a task's executor leaves alone.
Executor == << exec_ret, retry_after, retry_sleeps, sleeping, polls,
               poll_sleeps, elapsed_over >>

Tasks == 1..Len(requests)


Total == Len(requests)

\* ------------------------------------------------------------ data shapes
\* CommentaryResult (dataclass, lines 52-61); security_name and request_key
\* are carried along unchanged by the code and left out.
CommentaryResult(ticker, commentary, citations, success, error_message) ==
    [ticker |-> ticker, commentary |-> commentary, citations |-> citations,
     success |-> success, error_message |-> error_message]

\* Exceptions: the class and str(exception).  The timeout httpx raises for a
\* call carries no text; the poller's own timeout has one (line 201).
Exc(type, msg) == [type |-> type, msg |-> msg]
TimeoutException    == Exc("TimeoutException", << >>)
PollingTimeout      == Exc("TimeoutException", <<"Polling timeout after max_wait">>)
HTTPStatusError     == Exc("HTTPStatusError", <<"HTTP status error">>)
RequestError        == Exc("RequestError", <<"connection failed">>)
MaxRetriesExceeded  == Exc("Exception", <<"Max retries exceeded">>)

\* The Retry-After header of a 429 response, as response.headers.get gives it:
\* absent (None), or its text: a number of seconds or an HTTP date (the two
\* forms of RFC 9110).
HttpDate == "Fri, 06 Nov 2026 12:00:00 GMT"
Absent == [present |-> FALSE, text |-> ""]
RetryAfter(text) == [present |-> TRUE, text |-> text]
RetryAfterHeaders == {Absent} \cup { RetryAfter(t) : t \in {"3", HttpDate} }

\* `if retry_after:` (line 289): None and "" are false.
IsTruthy(header) == header.present /\ header.text # ""

\* float(retry_after) (line 290): the number the text denotes, in
\* milliseconds; a text that is no number raises ValueError.
IsNumber(text) == text \in {"0", "3"}
float(text) == CASE text = "0" -> 0
                 [] text = "3" -> 3000
ValueError(text) ==
    Exc("ValueError", <<"could not convert string to float: ", text>>)

\* A sleep that was made: asyncio.sleep(ms / 1000).
Slept(ms) == [ms |-> ms]

\* random.uniform(a, b) is a + (b - a) * random.random() (CPython); draw is
\* random.random() in thousandths.
uniform(a, b, draw) == a + ((b - a) * draw) \div 1000

\* The draws the batch model takes: the two ends of the interval.
Draws == {0, 1000}

Min(a, b) == IF a <= b THEN a ELSE b

\* A backoff without the cap.
_calculate_backoff_uncapped(k, draw) ==
    LET backoff == initial_backoff * (2 ^ k)
        jitter == (backoff * jitter_percent) \div 100
    IN  backoff + uniform(-jitter, jitter, draw)

\* _calculate_backoff, lines 122-129.
_calculate_backoff(k, draw) ==
    LET backoff == Min(initial_backoff * (2 ^ k), max_backoff)
        jitter == (backoff * jitter_percent) \div 100
    IN  backoff + uniform(-jitter, jitter, draw)

\* What a progress callback may raise: any Exception, its message empty
\* (raise RuntimeError(), a failed assert) or not.
CallbackMessages == { << >>, <<"callback failed">> }
CallbackExceptions == { Exc("Exception", m) : m \in CallbackMessages }

\* A url is the sequence of its parts, "" is << >>, and `a in b` on strings
\* (b contains a) is a run of b's parts.
UrlX == <<"https://a.com/x">>
UrlXTracked == <<"https://a.com/x", "?utm=1">>
UrlB == <<"https://b.com/y">>
Contains(b, a) ==
    \E k \in 0..(Len(b) - Len(a)) : SubSeq(b, k + 1, k + Len(a)) = a

\* An annotation of the output text (line 360).
Annotation(type, url, start_index) ==
    [type |-> type, url |-> url, start_index |-> start_index]

\* The pieces of a text: words that answer a prompt, a markdown link
\* [label](url), a parenthesised bare URL, and a footnote marker [N].
Answer(prompt) == [piece |-> "words", answers |-> prompt]
Link(label, url) == [piece |-> "link", answers |-> label, url |-> url]
BareUrlPiece(prompt) == [piece |-> "(https://a.com/x)", answers |-> prompt]
Footnote(num) == [piece |-> "[N]", num |-> num]

\* The terminal payloads the API may deliver for a prompt: the text answers
\* the prompt; url_citation annotations may be present or not; a failed job
\* has no output; a text may consist of a parenthesised bare URL only; the
\* output may not have the shape the interpreter walks (an item that is no dict).
Payload(status, well_formed, content, annotations) ==
    [status |-> status, well_formed |-> well_formed, content |-> content,
     annotations |-> annotations]
TerminalData(prompt) ==
    { Payload("completed", TRUE, <<Answer(prompt)>>,
              <<Annotation("url_citation", UrlX, 0)>>),
      Payload("completed", TRUE, <<Answer(prompt)>>, << >>),
      Payload("completed", TRUE, <<BareUrlPiece(prompt)>>,
              <<Annotation("url_citation", UrlX, 0)>>),
      Payload("completed", FALSE, << >>, << >>),
      Payload("failed", TRUE, << >>, << >>) }

\* ------------------------------------------------------ response interpreter
IsUrlCitation(ann) == ann.type = "url_citation"

RECURSIVE Insert(_, _)
\* list.sort(key=start_index) is stable: an annotation goes after those that
\* start at the same place and came before it.
Insert(sorted, ann) ==
    IF sorted = << >> THEN <<ann>>
    ELSE IF sorted[Len(sorted)].start_index <= ann.start_index
         THEN Append(sorted, ann)
         ELSE Append(Insert(SubSeq(sorted, 1, Len(sorted) - 1), ann),
                     sorted[Len(sorted)])

\* A list left in the order of the payload.
SortByPayloadOrder(anns) == anns

RECURSIVE SortByStartIndex(_)
\* line 394.
SortByStartIndex(anns) ==
    IF anns = << >> THEN << >>
    ELSE Insert(SortByStartIndex(SubSeq(anns, 1, Len(anns) - 1)), anns[Len(anns)])

IsCited(url) == url # << >>

\* A citation list with one entry per annotation.
DedupKeepsRepeats(urls, seen) == SelectSeq(urls, IsCited)

RECURSIVE Dedup(_, _)
\* lines 396-409: first-seen order, empty urls and repeats skipped.  The
\* footnote number of a url (url_to_footnote) is its place in this list.
Dedup(urls, seen) ==
    IF urls = << >> THEN << >>
    ELSE IF Head(urls) = << >> \/ Head(urls) \in seen
         THEN Dedup(Tail(urls), seen)
         ELSE <<Head(urls)>> \o Dedup(Tail(urls), seen \cup {Head(urls)})

RECURSIVE url_to_footnote(_, _, _)
\* lines 398-405: the dict url_to_footnote, filled in the same loop; the
\* number of a new url is len(citations) + 1.
url_to_footnote(urls, seen, count) ==
    IF urls = << >> THEN << >>
    ELSE IF Head(urls) = << >> \/ Head(urls) \in seen
         THEN url_to_footnote(Tail(urls), seen, count)
         ELSE (Head(urls) :> (count + 1))
              @@ url_to_footnote(Tail(urls), seen \cup {Head(urls)}, count + 1)

\* Further pieces of a text: a blank, a parenthesis, a full stop.
Space == [piece |-> " "]
Open == [piece |-> "("]
Close == [piece |-> ")"]
Period == [piece |-> "."]

\* A substitution that matches a link only when its url is a citation's url.
replace_markdown_link_exact(piece, footnotes) ==
    IF piece.piece # "link" THEN piece
    ELSE IF piece.url \in DOMAIN footnotes
         THEN Footnote(footnotes[piece.url])
         ELSE [piece |-> "words", answers |-> piece.answers]

\* replace_markdown_link, lines 146-153: the dict is walked in insertion
\* order, which is the order of the footnote numbers; the first url that is
\* in the link's url, or the other way round, gives the footnote; a link to
\* no citation leaves its label.
replace_markdown_link(piece, footnotes) ==
    IF piece.piece # "link" THEN piece
    ELSE LET hits == { footnotes[u] : u \in
                         { v \in DOMAIN footnotes :
                             \/ Contains(piece.url, v)
                             \/ Contains(v, piece.url) } }
         IN  IF hits = {}
             THEN [piece |-> "words", answers |-> piece.answers]
             ELSE Footnote(CHOOSE n \in hits : \A m \in hits : n <= m)

RECURSIVE SkipSpaces(_)
\* \s* at the head of a text.
SkipSpaces(text) ==
    IF text # << >> /\ Head(text) = Space THEN SkipSpaces(Tail(text)) ELSE text

\* A substitution that leaves the parentheses around a marker.
UnwrapFootnotesNot(text) == text

RECURSIVE UnwrapFootnotes(_)
\* line 159, re.sub(r'\(\s*(\[[0-9]+\])\s*\)', r'\1'): one pass from the
\* left, each "( [N] )" becomes "[N]".
UnwrapFootnotes(text) ==
    IF text = << >> THEN << >>
    ELSE LET inner == SkipSpaces(Tail(text))
             after == IF inner = << >> THEN << >> ELSE SkipSpaces(Tail(inner))
         IN  IF /\ Head(text) = Open
                /\ inner # << >>
                /\ inner[1].piece = "[N]"
                /\ after # << >>
                /\ after[1] = Close
             THEN <<inner[1]>> \o UnwrapFootnotes(Tail(after))
             ELSE <<Head(text)>> \o UnwrapFootnotes(Tail(text))

RECURSIVE DropDoubleParenUrls(_)
\* line 162: "((https://...))" is removed.
DropDoubleParenUrls(text) ==
    IF text = << >> THEN << >>
    ELSE IF /\ Len(text) >= 3
            /\ text[1] = Open
            /\ text[2].piece = "(https://a.com/x)"
            /\ text[3] = Close
         THEN DropDoubleParenUrls(SubSeq(text, 4, Len(text)))
         ELSE <<Head(text)>> \o DropDoubleParenUrls(Tail(text))

\* line 165: "(https://...)" is removed.
IsKept(piece) == piece.piece # "(https://a.com/x)"

RECURSIVE CollapseSpaces(_)
\* line 168: a run of blanks becomes one blank.
CollapseSpaces(text) ==
    IF text = << >> THEN << >>
    ELSE IF Len(text) >= 2 /\ text[1] = Space /\ text[2] = Space
         THEN CollapseSpaces(Tail(text))
         ELSE <<Head(text)>> \o CollapseSpaces(Tail(text))

RECURSIVE SpaceBeforePunctuation(_)
\* line 171: the blank before a punctuation mark is removed.
SpaceBeforePunctuation(text) ==
    IF text = << >> THEN << >>
    ELSE IF Len(text) >= 2 /\ text[1] = Space /\ text[2] = Period
         THEN <<Period>> \o SpaceBeforePunctuation(SubSeq(text, 3, Len(text)))
         ELSE <<Head(text)>> \o SpaceBeforePunctuation(Tail(text))

RECURSIVE strip(_)
\* str.strip(): the blanks at both ends are removed.
strip(text) ==
    IF text = << >> THEN << >>
    ELSE IF Head(text) = Space THEN strip(Tail(text))
    ELSE IF text[Len(text)] = Space THEN strip(SubSeq(text, 1, Len(text) - 1))
    ELSE text

\* _clean_inline_citations, lines 131-173, on the pieces of a text.
_clean_inline_citations(text, footnotes) ==
    LET linked == [j \in 1..Len(text) |-> replace_markdown_link(text[j], footnotes)]
        unwrapped == UnwrapFootnotes(linked)
        no_urls == SelectSeq(DropDoubleParenUrls(unwrapped), IsKept)
    IN  strip(SpaceBeforePunctuation(CollapseSpaces(no_urls)))

\* An interpreter without the check of line 416.
_parse_response_unchecked(response, ticker) ==
    IF ~response.well_formed
    THEN CommentaryResult(ticker, << >>, << >>, FALSE,
                          <<"Failed to parse response: ", "str(e)">>)
    ELSE IF response.content = << >>
    THEN CommentaryResult(ticker, << >>, << >>, FALSE,
                          <<"No content in response: ", response.status>>)
    ELSE LET url_annotations ==
                 SortByStartIndex(SelectSeq(response.annotations, IsUrlCitation))
             urls == [j \in 1..Len(url_annotations) |-> url_annotations[j].url]
         IN  CommentaryResult(ticker,
                 _clean_inline_citations(strip(response.content),
                                         url_to_footnote(urls, {}, 0)),
                 Dedup(urls, {}), TRUE, << >>)

\* _parse_response, lines 340-442.
_parse_response(response, ticker) ==
    IF ~response.well_formed
    THEN CommentaryResult(ticker, << >>, << >>, FALSE,
                          <<"Failed to parse response: ", "str(e)">>)
    ELSE IF response.content = << >>
    THEN CommentaryResult(ticker, << >>, << >>, FALSE,
                          <<"No content in response: ", response.status>>)
    ELSE LET url_annotations ==
                 SortByStartIndex(SelectSeq(response.annotations, IsUrlCitation))
             urls == [j \in 1..Len(url_annotations) |-> url_annotations[j].url]
             citations == Dedup(urls, {})
             commentary == _clean_inline_citations(strip(response.content),
                                                   url_to_footnote(urls, {}, 0))
         IN  IF commentary = << >>
             THEN CommentaryResult(ticker, << >>, << >>, FALSE,
                                   <<"Empty commentary in response">>)
             ELSE CommentaryResult(ticker, commentary, citations, TRUE, << >>)

\* generate_commentary, lines 469-496.  outcome is what _make_request did:
\* [kind |-> "return", data |-> payload] or [kind |-> "raise", exc |-> e].
generate_commentary(req, outcome) ==
    IF outcome.kind = "return"
    THEN LET result == _parse_response(outcome.data, req.ticker)
         IN  IF result.success /\ result.citations = << >>
             THEN [result EXCEPT !.success = FALSE,
                                 !.error_message =
                  <<"No citations found in response (citations are required)">>]
             ELSE result
    ELSE CommentaryResult(req.ticker, << >>, << >>, FALSE,
                          <<"API request failed: ">> \o outcome.exc.msg)

Returned(data) == [kind |-> "return", data |-> data]
Raised(exc) == [kind |-> "raise", exc |-> exc]

\* A batch that appends the outcomes as the tasks end.
ResultSlotOnCompletion(i) == completed + 1

\* asyncio.gather(*tasks) keeps the order of the awaitables: the outcome of
\* the task made for requests[i] is results[i].
ResultSlot(i) == i

\* ------------------------------------------------------------------ Init
Init ==
    /\ requests \in RequestLists
    /\ limit \in Limits
    /\ has_callback \in BOOLEAN
    /\ cancel_event = FALSE
    /\ cancel_at_start = FALSE
    /\ faults_left = MaxBatchFaults
    /\ batch = "idle"
    /\ semaphore = 0
    /\ holding = {}
    /\ pc = [i \in Tasks |-> "waiting"]
    /\ attempt = [i \in Tasks |-> 0]
    /\ posts = [i \in Tasks |-> 0]
    /\ gets = [i \in Tasks |-> 0]
    /\ last_resp = [i \in Tasks |-> "none"]
    /\ exec_exc = [i \in Tasks |-> None]
    /\ task_out = [i \in Tasks |-> None]
    /\ completed = 0
    /\ progress = << >>
    /\ finish_order = << >>
    /\ final_results = << >>
    /\ exec_ret = [i \in Tasks |-> None]
    /\ retry_after = [i \in Tasks |-> Absent]
    /\ retry_sleeps = [i \in Tasks |-> 0]
    /\ sleeping = [i \in Tasks |-> None]
    /\ polls = [i \in Tasks |-> 0]
    /\ poll_sleeps = [i \in Tasks |-> 0]
    /\ elapsed_over = [i \in Tasks |-> FALSE]
    /\ call = None
    /\ app = None


\* -------------------------------------------------------------- task steps
\* The environment of a batch (the transport, the API, the progress callback)
\* departs from the plain course (a first POST answered 200 with a cited
\* text, a callback that returns) at most faults_left times more.
Spend(n) ==
    /\ faults_left >= n
    /\ faults_left' = faults_left - n

CitedData(prompt) ==
    Payload("completed", TRUE, <<Answer(prompt)>>,
            <<Annotation("url_citation", UrlX, 0)>>)
DataCost(data, prompt) == IF data = CitedData(prompt) THEN 0 ELSE 1
CallbackCost(cb) == IF cb = None THEN 0 ELSE 1

\* A task suspends (on a POST or GET in flight, or in a sleep): nothing of
\* the batch's shared state changes.
Suspend(i, state) ==
    /\ pc' = [pc EXCEPT ![i] = state]
    /\ UNCHANGED << semaphore, holding, exec_exc, exec_ret, task_out, completed,
                    progress, finish_order >>

\* What the progress callback does when it is called: it returns (None) or
\* raises.  Without a callback nothing is called (line 532).
CallbackOutcomes == IF has_callback THEN {None} \cup CallbackExceptions ELSE {None}

\* A callback that is given the place of the request in the list.
CompletedCountByIndex(i) == i

\* lines 531-533: the count handed to the callback is the shared counter,
\* read right after `completed += 1` with no suspension between.
CompletedCount(i) == completed + 1

\* A gate whose slot is given back only when the body ends without raising.
ReleaseOnReturnOnly(cb) == IF cb = None THEN semaphore + 1 ELSE semaphore

\* `async with semaphore` (line 522) gives the slot back when its body is
\* left, by its end or by an exception (here of the progress callback).
Release(cb) == semaphore + 1

\* An item-level operation that calls _make_request again, after a sleep,
\* when the payload it got gives a failure (no text, no citation).
FinishResubmitting(i, outcome, cb) ==
    LET req == requests[i]
        result == generate_commentary(req, outcome)
    IN  IF outcome.kind = "return" /\ ~result.success
        THEN /\ pc' = [pc EXCEPT ![i] = "backoff"]
             /\ exec_ret' = [exec_ret EXCEPT ![i] = outcome.data]
             /\ UNCHANGED << semaphore, holding, exec_exc, task_out, completed,
                             progress, finish_order >>
        ELSE /\ pc' = [pc EXCEPT ![i] = "done"]
             /\ exec_exc' = [exec_exc EXCEPT ![i] =
                                 IF outcome.kind = "raise" THEN outcome.exc ELSE None]
             /\ exec_ret' = [exec_ret EXCEPT ![i] =
                                 IF outcome.kind = "return" THEN outcome.data ELSE None]
             /\ completed' = completed + 1
             /\ progress' = IF has_callback
                            THEN Append(progress, << req.ticker, completed + 1, Total >>)
                            ELSE progress
             /\ task_out' = [task_out EXCEPT ![i] =
                                 IF cb = None
                                 THEN [kind |-> "result", value |-> result]
                                 ELSE [kind |-> "exception", exc |-> cb]]
             /\ finish_order' = Append(finish_order, i)
             /\ semaphore' = semaphore + 1
             /\ holding' = holding \ {i}

\* _make_request has ended for task i (it returned a payload or raised):
\* generate_commentary builds the result (lines 477-496), and
\* process_with_semaphore counts it, calls the progress callback and leaves
\* `async with semaphore` (lines 531-534), all without suspending.
Finish(i, outcome, cb) ==
    LET req == requests[i]
        result == generate_commentary(req, outcome)
    IN  /\ pc' = [pc EXCEPT ![i] = "done"]
        /\ exec_exc' = [exec_exc EXCEPT ![i] =
                            IF outcome.kind = "raise" THEN outcome.exc ELSE None]
        /\ exec_ret' = [exec_ret EXCEPT ![i] =
                            IF outcome.kind = "return" THEN outcome.data ELSE None]
        /\ completed' = completed + 1
        /\ progress' = IF has_callback
                       THEN Append(progress, << req.ticker, CompletedCount(i), Total >>)
                       ELSE progress
        /\ task_out' = [task_out EXCEPT ![ResultSlot(i)] =
                            IF cb = None
                            THEN [kind |-> "result", value |-> result]
                            ELSE [kind |-> "exception", exc |-> cb]]
        /\ finish_order' = Append(finish_order, i)
        /\ semaphore' = Release(cb)
        /\ holding' = holding \ {i}

\* `await asyncio.sleep(wait_time)` of _make_request (lines 294, 326, 334).
RetrySleep(i, wait_time) ==
    /\ retry_sleeps' = [retry_sleeps EXCEPT ![i] = @ + 1]
    /\ sleeping' = [sleeping EXCEPT ![i] = Slept(wait_time)]

\* No sleep is made; a sleep that was in progress has ended.
NoRetrySleep(i) ==
    /\ sleeping' = [sleeping EXCEPT ![i] = None]
    /\ UNCHANGED retry_sleeps

\* Handlers that sleep and go round the loop whatever the attempt: after the
\* last attempt the loop ends and line 338 raises.
RetryOrRaiseAlwaysSleeps(i, exc, cb) ==
    /\ \E draw \in Draws : RetrySleep(i, _calculate_backoff(attempt[i], draw))
    /\ Suspend(i, "backoff") /\ Spend(1)

\* The handlers of httpx.HTTPStatusError and httpx.RequestError, lines
\* 322-336: sleep and go round the loop while attempts remain, else re-raise.
RetryOrRaise(i, exc, cb) ==
    IF attempt[i] < max_retries - 1
    THEN /\ \E draw \in Draws : RetrySleep(i, _calculate_backoff(attempt[i], draw))
         /\ Suspend(i, "backoff") /\ Spend(1)
    ELSE /\ NoRetrySleep(i)
         /\ Finish(i, Raised(exc), cb) /\ Spend(1 + CallbackCost(cb))

\* A timeout handled by the handler of httpx.RequestError, its base class.
OnTimeoutRetried(i, exc, cb) == RetryOrRaise(i, exc, cb)

\* The handler of httpx.TimeoutException, lines 318-321: re-raise.
OnTimeout(i, exc, cb) ==
    /\ NoRetrySleep(i)
    /\ Finish(i, Raised(exc), cb) /\ Spend(1 + CallbackCost(cb))

\* _make_request returns a payload (line 316, or line 309 from the poller).
OnPayload(i, data, cb) ==
    /\ NoRetrySleep(i)
    /\ Finish(i, Returned(data), cb)
    /\ Spend(DataCost(data, requests[i].prompt) + CallbackCost(cb))

\* HTTP 429, lines 286-295: sleep Retry-After or the backoff, then `continue`.
\* float() of a header that is no number raises ValueError, which none of
\* _make_request's handlers catches.
OnRateLimited(i, header, cb) ==
    IF IsTruthy(header)
    THEN IF IsNumber(header.text)
         THEN /\ RetrySleep(i, float(header.text))
              /\ Suspend(i, "backoff") /\ Spend(1)
         ELSE /\ NoRetrySleep(i)
              /\ Finish(i, Raised(ValueError(header.text)), cb)
              /\ Spend(1 + CallbackCost(cb))
    ELSE /\ \E draw \in Draws : RetrySleep(i, _calculate_backoff(attempt[i], draw))
         /\ Suspend(i, "backoff") /\ Spend(1)

Environment == << requests, limit, has_callback, cancel_event, cancel_at_start,
                  batch, final_results, call, app >>

\* generate_commentary_batch is called: the semaphore is made, one task per
\* request is created (lines 515-541).
Start ==
    /\ batch = "idle"
    /\ batch' = "running"
    /\ semaphore' = limit
    /\ cancel_at_start' = cancel_event
    /\ UNCHANGED << requests, limit, has_callback, cancel_event, faults_left,
                    holding, pc, attempt, posts, gets, last_resp, exec_exc,
                    task_out, completed, progress, finish_order, final_results,
                    call, app >>
    /\ UNCHANGED Executor

\* The caller sets the cancellation signal (gui.py request_cancel, line 1841),
\* before the batch call or while it runs.
SetCancel ==
    /\ batch \in {"idle", "running"}
    /\ ~cancel_event
    /\ cancel_event' = TRUE
    /\ UNCHANGED << requests, limit, has_callback, cancel_at_start,
                    faults_left, batch, semaphore, holding, pc, attempt, posts,
                    gets, last_resp, exec_exc, task_out, completed, progress,
                    finish_order, final_results, call, app >>
    /\ UNCHANGED Executor

\* A gate that admits one task too many.
CanAcquireOffByOne(i) ==
    /\ semaphore >= 0
    /\ \A j \in 1..(i - 1) : pc[j] # "waiting"

\* asyncio.Semaphore: a slot is free, and the waiters are served in the order
\* in which they asked, which is the order of the tasks.
CanAcquire(i) ==
    /\ semaphore > 0
    /\ \A j \in 1..(i - 1) : pc[j] # "waiting"

\* Task i enters `async with semaphore` (line 522), generate_commentary and
\* _make_request, and issues the first POST (attempt 0, line 279).
Acquire(i) ==
    /\ batch = "running"
    /\ pc[i] = "waiting"
    /\ CanAcquire(i)
    /\ semaphore' = semaphore - 1
    /\ holding' = holding \cup {i}
    /\ pc' = [pc EXCEPT ![i] = "post"]
    /\ attempt' = [attempt EXCEPT ![i] = 0]
    /\ posts' = [posts EXCEPT ![i] = @ + 1]
    /\ UNCHANGED << gets, last_resp, exec_exc, task_out, completed, progress,
                    finish_order, faults_left >>
    /\ UNCHANGED Executor
    /\ UNCHANGED Environment

\* The POST of task i is answered (lines 279-336).
PostReturns(i) ==
    /\ pc[i] = "post"
    /\ \E cb \in CallbackOutcomes :
        \/ \* HTTP 429
           /\ last_resp' = [last_resp EXCEPT ![i] = "POST 429"]
           /\ \E header \in RetryAfterHeaders :
                /\ retry_after' = [retry_after EXCEPT ![i] = header]
                /\ OnRateLimited(i, header, cb)
           /\ UNCHANGED << gets, polls, poll_sleeps, elapsed_over >>
        \/ \* another status >= 400: raise_for_status raises HTTPStatusError
           /\ last_resp' = [last_resp EXCEPT ![i] = "POST http_error"]
           /\ RetryOrRaise(i, HTTPStatusError, cb)
           /\ UNCHANGED << gets, retry_after, polls, poll_sleeps, elapsed_over >>
        \/ \* the connection fails: httpx.RequestError
           /\ last_resp' = [last_resp EXCEPT ![i] = "POST network_error"]
           /\ RetryOrRaise(i, RequestError, cb)
           /\ UNCHANGED << gets, retry_after, polls, poll_sleeps, elapsed_over >>
        \/ \* the POST times out: httpx.TimeoutException
           /\ last_resp' = [last_resp EXCEPT ![i] = "POST timeout"]
           /\ OnTimeout(i, TimeoutException, cb)
           /\ UNCHANGED << gets, retry_after, polls, poll_sleeps, elapsed_over >>
        \/ \* 200 with a payload that is not queued: returned as it is
           /\ \E data \in TerminalData(requests[i].prompt) : OnPayload(i, data, cb)
           /\ last_resp' = [last_resp EXCEPT ![i] = "POST terminal"]
           /\ UNCHANGED << gets, retry_after, polls, poll_sleeps, elapsed_over >>
        \/ \* 200 with an id and status queued / in_progress / running:
           \* _poll_response_status starts (elapsed is 0) and issues its first GET
           /\ last_resp' = [last_resp EXCEPT ![i] = "POST queued"]
           /\ gets' = [gets EXCEPT ![i] = @ + 1]
           /\ polls' = [polls EXCEPT ![i] = 1]
           /\ poll_sleeps' = [poll_sleeps EXCEPT ![i] = 0]
           /\ elapsed_over' = [elapsed_over EXCEPT ![i] = FALSE]
           /\ Suspend(i, "get") /\ Spend(1)
           /\ NoRetrySleep(i)
           /\ UNCHANGED retry_after
    /\ UNCHANGED << attempt, posts >>
    /\ UNCHANGED Environment

\* A loop in which a rate-limited attempt is not counted.
NextAttemptFreeOn429(i) ==
    IF last_resp[i] = "POST 429" THEN attempt[i] ELSE attempt[i] + 1

\* `for attempt in range(max_retries)`, line 277: `continue` and the end of
\* a handler both go to the next value of the loop variable.
NextAttempt(i) == attempt[i] + 1

\* The sleep before a retry ends: the loop goes to the next attempt and
\* issues its POST, or is exhausted (line 338).
BackoffEnds(i) ==
    /\ pc[i] = "backoff"
    /\ \E cb \in CallbackOutcomes :
        IF NextAttempt(i) < max_retries
        THEN /\ attempt' = [attempt EXCEPT ![i] = NextAttempt(i)]
             /\ posts' = [posts EXCEPT ![i] = @ + 1]
             /\ last_resp' = [last_resp EXCEPT ![i] = "none"]
             /\ Suspend(i, "post")
             /\ UNCHANGED faults_left
        ELSE /\ Finish(i, Raised(MaxRetriesExceeded), cb)
             /\ Spend(CallbackCost(cb))
             /\ UNCHANGED << attempt, posts, last_resp >>
    /\ NoRetrySleep(i)
    /\ retry_after' = [retry_after EXCEPT ![i] = Absent]
    /\ UNCHANGED << gets, polls, poll_sleeps, elapsed_over >>
    /\ UNCHANGED Environment

\* The payloads a status GET may deliver: the terminal ones, or the job still
\* running.
StatusData(prompt) ==
    TerminalData(prompt) \cup { Payload("running", TRUE, << >>, << >>) }

GetLabel(status) ==
    CASE status = "completed" -> "GET completed"
      [] status = "failed" -> "GET failed"
      [] OTHER -> "GET running"

\* A poller that takes only a finished job for terminal.
IsTerminalOnlyCompleted(status) == status \in {"completed", "succeeded"}

\* Lines 213-216: the statuses on which the poller returns the payload.
IsTerminal(status) ==
    \/ status \in {"completed", "succeeded"}
    \/ status \in {"failed", "cancelled", "expired"}

\* The status GET of task i is answered (lines 204-218); what
\* _poll_response_status raises is handled by _make_request's handlers.
GetReturns(i) ==
    /\ pc[i] = "get"
    /\ \E cb \in CallbackOutcomes :
        \/ \* 200: a terminal status returns the payload, any other status
           \* sleeps poll_interval
           \E data \in StatusData(requests[i].prompt) :
             /\ last_resp' = [last_resp EXCEPT ![i] = GetLabel(data.status)]
             /\ IF IsTerminal(data.status)
                THEN /\ OnPayload(i, data, cb)
                     /\ UNCHANGED poll_sleeps
                ELSE /\ poll_sleeps' = [poll_sleeps EXCEPT ![i] = @ + 1]
                     /\ sleeping' = [sleeping EXCEPT ![i] = Slept(poll_interval)]
                     /\ UNCHANGED retry_sleeps
                     /\ Suspend(i, "poll_sleep") /\ Spend(1)
        \/ \* status >= 400: raise_for_status raises HTTPStatusError
           /\ last_resp' = [last_resp EXCEPT ![i] = "GET http_error"]
           /\ RetryOrRaise(i, HTTPStatusError, cb)
           /\ UNCHANGED poll_sleeps
        \/ \* the connection fails
           /\ last_resp' = [last_resp EXCEPT ![i] = "GET network_error"]
           /\ RetryOrRaise(i, RequestError, cb)
           /\ UNCHANGED poll_sleeps
        \/ \* the GET times out
           /\ last_resp' = [last_resp EXCEPT ![i] = "GET timeout"]
           /\ OnTimeout(i, TimeoutException, cb)
           /\ UNCHANGED poll_sleeps
    /\ UNCHANGED << attempt, posts, gets, retry_after, polls, elapsed_over >>
    /\ UNCHANGED Environment

\* A loop head that does not look at the elapsed time.
RaisesAtLoopHeadNever(over) == FALSE

\* Lines 198-199: `if elapsed > max_wait: raise`; over is what the clock
\* gives for elapsed > max_wait.
RaisesAtLoopHead(over) == over

\* The poll sleep ends and the loop of _poll_response_status goes round
\* (lines 197-208): it reads the clock; past max_wait it raises, else it
\* issues the next GET.
PollSleepEnds(i) ==
    /\ pc[i] = "poll_sleep"
    /\ \E cb \in CallbackOutcomes, over \in BOOLEAN :
        /\ elapsed_over' = [elapsed_over EXCEPT ![i] = over]
        /\ IF RaisesAtLoopHead(over)
           THEN /\ last_resp' = [last_resp EXCEPT ![i] = "poll max_wait"]
                /\ OnTimeout(i, PollingTimeout, cb)
                /\ UNCHANGED << gets, polls >>
           ELSE /\ gets' = [gets EXCEPT ![i] = @ + 1]
                /\ polls' = [polls EXCEPT ![i] = @ + 1]
                /\ last_resp' = [last_resp EXCEPT ![i] = "none"]
                /\ Suspend(i, "get")
                /\ NoRetrySleep(i)
                /\ UNCHANGED faults_left
    /\ UNCHANGED << attempt, posts, retry_after, poll_sleeps >>
    /\ UNCHANGED Environment

\* gather(*tasks) without return_exceptions.
return_exceptions_off == FALSE

\* gather(*tasks, return_exceptions=True), line 541.
return_exceptions == TRUE

\* Lines 543-557: an Exception in a slot becomes a failure result.
Convert(i, out) ==
    IF out.kind = "exception"
    THEN CommentaryResult(requests[i].ticker, << >>, << >>, FALSE, out.exc.msg)
    ELSE out.value

\* Every task has ended: gather returns and the batch call returns its list
\* (lines 541-559).
BatchReturn ==
    /\ batch = "running"
    /\ \A i \in Tasks : pc[i] = "done"
    /\ IF ~return_exceptions /\ \E i \in Tasks : task_out[i].kind = "exception"
       THEN /\ batch' = "raised"
            /\ UNCHANGED final_results
       ELSE /\ batch' = "returned"
            /\ final_results' = [i \in Tasks |-> Convert(i, task_out[i])]
    /\ UNCHANGED << requests, limit, has_callback, cancel_event, cancel_at_start,
                    faults_left, semaphore, holding, pc, attempt, posts, gets, last_resp,
                    exec_exc, task_out, completed, progress, finish_order, call, app >>
    /\ UNCHANGED Executor

\* What the caller of the batch makes of its end (gui.py _async_generate and
\* _run_generation_thread): a batch that returned while the signal is set is
\* turned into a cancellation; an exception is reported as an error.
RunOutcome ==
    CASE batch = "returned" /\ cancel_event -> "cancelled"
      [] batch = "returned" -> "completed"
      [] batch = "raised" -> "error"
      [] OTHER -> "running"

Next ==
    \/ Start
    \/ SetCancel
    \/ \E i \in Tasks : Acquire(i)
    \/ \E i \in Tasks : PostReturns(i)
    \/ \E i \in Tasks : BackoffEnds(i)
    \/ \E i \in Tasks : GetReturns(i)
    \/ \E i \in Tasks : PollSleepEnds(i)
    \/ BatchReturn

Spec == Init /\ [][Next]_vars

\* The steps of the task made for requests[i].
TaskStep(i) ==
    /\ i \in Tasks
    /\ \/ Acquire(i)
       \/ PostReturns(i)
       \/ BackoffEnds(i)
       \/ GetReturns(i)
       \/ PollSleepEnds(i)

\* The task made for requests[i] can run: it waits at a gate that admits
\* it, or it is suspended on a call of the transport or in a sleep.
Ready(i) ==
    /\ i \in Tasks
    /\ batch = "running"
    /\ pc[i] # "done"
    /\ pc[i] = "waiting" => CanAcquire(i)

\* The task made for requests[i] is resumed and runs to where it suspends
\* next or ends: the step TaskStep(i), told by the task's position alone.
TaskRuns(i) ==
    /\ Ready(i)
    /\ \E state \in {"post", "backoff", "get", "poll_sleep", "done"} :
         /\ state # pc[i]
         /\ pc' = [pc EXCEPT ![i] = state]

\* The batch under the scheduling of the event loop: a task that can run is
\* run (asyncio runs every ready callback, and a semaphore wakes its waiters
\* in order), every call on the transport is answered and every sleep ends
\* (each Request Executor call finishes), and gather returns once every
\* task has ended.
Fairness ==
    /\ \A i \in 1..MaxRequests : WF_pc(TaskRuns(i))
    /\ WF_vars(BatchReturn)

\* Batches of up to MaxRequests requests, with few departures.
InitLive ==
    /\ requests \in RequestLists
    /\ limit \in Limits
    /\ has_callback \in BOOLEAN
    /\ cancel_event = FALSE
    /\ cancel_at_start = FALSE
    /\ faults_left = MaxLiveFaults
    /\ batch = "idle"
    /\ semaphore = 0
    /\ holding = {}
    /\ pc = [i \in Tasks |-> "waiting"]
    /\ attempt = [i \in Tasks |-> 0]
    /\ posts = [i \in Tasks |-> 0]
    /\ gets = [i \in Tasks |-> 0]
    /\ last_resp = [i \in Tasks |-> "none"]
    /\ exec_exc = [i \in Tasks |-> None]
    /\ task_out = [i \in Tasks |-> None]
    /\ completed = 0
    /\ progress = << >>
    /\ finish_order = << >>
    /\ final_results = << >>
    /\ exec_ret = [i \in Tasks |-> None]
    /\ retry_after = [i \in Tasks |-> Absent]
    /\ retry_sleeps = [i \in Tasks |-> 0]
    /\ sleeping = [i \in Tasks |-> None]
    /\ polls = [i \in Tasks |-> 0]
    /\ poll_sleeps = [i \in Tasks |-> 0]
    /\ elapsed_over = [i \in Tasks |-> FALSE]
    /\ call = None
    /\ app = None

\* A batch that is not cancelled: the caller never sets the signal.
NextLive ==
    \/ Start
    \/ \E i \in Tasks : TaskStep(i)
    \/ BatchReturn

SpecLive == InitLive /\ [][NextLive]_vars /\ Fairness

\* One request, with enough departures to exhaust the retries of
\* _make_request and to poll.
InitExec ==
    /\ requests = [i \in 1..1 |-> Descriptor(i)]
    /\ limit \in Limits
    /\ has_callback \in BOOLEAN
    /\ cancel_event = FALSE
    /\ cancel_at_start = FALSE
    /\ faults_left = MaxExecFaults
    /\ batch = "idle"
    /\ semaphore = 0
    /\ holding = {}
    /\ pc = [i \in Tasks |-> "waiting"]
    /\ attempt = [i \in Tasks |-> 0]
    /\ posts = [i \in Tasks |-> 0]
    /\ gets = [i \in Tasks |-> 0]
    /\ last_resp = [i \in Tasks |-> "none"]
    /\ exec_exc = [i \in Tasks |-> None]
    /\ task_out = [i \in Tasks |-> None]
    /\ completed = 0
    /\ progress = << >>
    /\ finish_order = << >>
    /\ final_results = << >>
    /\ exec_ret = [i \in Tasks |-> None]
    /\ retry_after = [i \in Tasks |-> Absent]
    /\ retry_sleeps = [i \in Tasks |-> 0]
    /\ sleeping = [i \in Tasks |-> None]
    /\ polls = [i \in Tasks |-> 0]
    /\ poll_sleeps = [i \in Tasks |-> 0]
    /\ elapsed_over = [i \in Tasks |-> FALSE]
    /\ call = None
    /\ app = None

SpecExec == InitExec /\ [][Next]_vars

\* ------------------------------------------------------------ pure functions
\* A model identifier is the sequence of its parts, and startswith is on the
\* parts.
Models ==
    { <<"gpt-5-nano", "-2025-08-07">>,
      <<"gpt-5.2", "-pro", "-2025-12-11">>,
      <<"gpt-5.2", "-2025-12-11">>,
      <<"gpt-5.2">>,
      <<"gpt-4o">> }

startswith(s, prefix) ==
    /\ Len(prefix) <= Len(s)
    /\ SubSeq(s, 1, Len(prefix)) = prefix

\* The levels a caller may ask for: those of the settings dialog, and strings
\* that are no level.
Levels == {"none", "low", "medium", "high", "xhigh", "invalid", ""}

\* A table in which the pro models have lost "medium".
get_reasoning_levels_for_model_pro_high(model_id) ==
    IF startswith(model_id, <<"gpt-5.2", "-pro">>)
    THEN <<"high", "xhigh">>
    ELSE IF startswith(model_id, <<"gpt-5.2">>)
    THEN <<"none", "low", "medium", "high", "xhigh">>
    ELSE <<"low", "medium", "high">>

\* gui.py get_reasoning_levels_for_model, lines 58-64.
get_reasoning_levels_for_model(model_id) ==
    IF startswith(model_id, <<"gpt-5.2", "-pro">>)
    THEN <<"medium", "high", "xhigh">>
    ELSE IF startswith(model_id, <<"gpt-5.2">>)
    THEN <<"none", "low", "medium", "high", "xhigh">>
    ELSE <<"low", "medium", "high">>

Supported(model_id) ==
    { get_reasoning_levels_for_model(model_id)[j] :
        j \in 1..Len(get_reasoning_levels_for_model(model_id)) }

\* gui.py _update_reasoning_levels, lines 626-633: the level the settings
\* dialog holds after a model was chosen.  A level of the model is kept, any
\* other becomes "none" where the model has it and "medium" where not.
_update_reasoning_levels(model_id, thinking_level) ==
    IF thinking_level \in Supported(model_id) THEN thinking_level
    ELSE IF "none" \in Supported(model_id) THEN "none"
    ELSE "medium"

\* A lookup that falls back to the longest timeout.
timeout_map_default_high(thinking_level) ==
    CASE thinking_level = "low" -> 120000
      [] thinking_level = "medium" -> 300000
      [] thinking_level = "high" -> 600000
      [] OTHER -> 600000

\* timeout_map.get(thinking_level, 300.0), lines 269-274, in milliseconds.
timeout_map(thinking_level) ==
    CASE thinking_level = "low" -> 120000
      [] thinking_level = "medium" -> 300000
      [] thinking_level = "high" -> 600000
      [] OTHER -> 300000

\* What _make_request sets up before its loop (lines 249-274) and hands to
\* client.post (line 283) and to _poll_response_status (line 313).
RequestSetup(model_id, thinking_level) ==
    LET timeout == timeout_map(thinking_level)
    IN  [effort |-> thinking_level,
         post_timeout |-> timeout,
         max_wait |-> timeout]

\* The draws of random.uniform taken for _calculate_backoff alone.
FineDraws == { (1000 * s) \div JitterSteps : s \in 0..JitterSteps }

\* The annotation lists and texts _parse_response is applied to: up to
\* MaxAnnotations annotations in any order, with repeated and empty urls and
\* annotations of another type; texts that cite a url once, twice, with
\* tracking parameters, in parentheses, or not at all; texts of blanks and
\* bare URLs only; the empty text.
AnnotationValues ==
    { Annotation(t, u, k) :
        t \in {"url_citation", "file_citation"},
        u \in {<< >>, UrlX, UrlXTracked, UrlB},
        k \in {0, 1} }
AnnotationLists ==
    UNION { [1..n -> AnnotationValues] : n \in 0..MaxAnnotations }
Texts ==
    LET p == Descriptor(1).prompt
    IN  { <<Answer(p)>>,
          <<Answer(p), Link("a.com", UrlX), Link("a.com", UrlX)>>,
          <<Answer(p), Link("a.com", UrlXTracked), Link("1", UrlX)>>,
          <<Answer(p), Link("b.com", UrlB), Link("a.com", UrlX),
            Link("b.com", UrlB)>>,
          <<Answer(p), Space, Open, Link("1", UrlXTracked), Close>>,
          <<Answer(p), Space, Open, Link("b.com", UrlB), Close>>,
          <<Answer(p), Space, Open, Open, Link("1", UrlX), Close, Close,
            Space, Period>>,
          <<Answer(p), Space, BareUrlPiece(p), Space, Answer(p), Space,
            Link("b.com", UrlB), Space>>,
          <<Space, Open, BareUrlPiece(p), Close, Space>>,
          <<Space, Space>>,
          << >> }

\* The state of the batch, which a call of a pure function leaves alone.  One
\* function is applied once in a behaviour: call is None until then.
Batch == << requests, limit, has_callback, cancel_event, cancel_at_start,
            faults_left, batch, semaphore, holding, pc, attempt, posts, gets,
            last_resp, exec_exc, task_out, completed, progress, finish_order,
            final_results >>

\* _calculate_backoff(attempt) is called and draws its random number.
Call_calculate_backoff ==
    /\ call = None
    /\ \E k \in 0..MaxAttempt, draw \in FineDraws :
         call' = [fn |-> "_calculate_backoff",
                  args |-> [attempt |-> k, draw |-> draw],
                  ret |-> _calculate_backoff(k, draw)]
    /\ UNCHANGED Batch
    /\ UNCHANGED Executor
    /\ UNCHANGED app

\* _make_request is called on a client of some model with some level.
Call_make_request ==
    /\ call = None
    /\ \E model_id \in Models, thinking_level \in Levels :
         call' = [fn |-> "_make_request",
                  args |-> [model |-> model_id, thinking_level |-> thinking_level],
                  ret |-> RequestSetup(model_id, thinking_level)]
    /\ UNCHANGED Batch
    /\ UNCHANGED Executor
    /\ UNCHANGED app

\* The level is normalized for a model, and normalized again.
Call_update_reasoning_levels ==
    /\ call = None
    /\ \E model_id \in Models, thinking_level \in Levels :
         LET level == _update_reasoning_levels(model_id, thinking_level)
         IN  call' = [fn |-> "_update_reasoning_levels",
                      args |-> [model |-> model_id, thinking_level |-> thinking_level],
                      ret |-> level,
                      again |-> _update_reasoning_levels(model_id, level)]
    /\ UNCHANGED Batch
    /\ UNCHANGED Executor
    /\ UNCHANGED app

\* _parse_response is called on a completed payload, which may not have the
\* shape the interpreter walks (an annotation that is no dict, a text that is
\* no string: the except clause of line 434).  The call keeps, next
\* to the result, the dict url_to_footnote (line 398) and the text after the
\* substitution of the links (line 156).
Call_parse_response ==
    /\ call = None
    /\ \E content \in Texts, annotations \in AnnotationLists,
          well_formed \in BOOLEAN :
         LET url_annotations ==
                 SortByStartIndex(SelectSeq(annotations, IsUrlCitation))
             urls == [j \in 1..Len(url_annotations) |-> url_annotations[j].url]
             footnotes == url_to_footnote(urls, {}, 0)
         IN  /\ ~well_formed => annotations = << >>
             /\ call' =
                     [fn |-> "_parse_response",
                      args |-> [content |-> content, annotations |-> annotations,
                                well_formed |-> well_formed],
                      url_to_footnote |-> footnotes,
                      linked |-> [j \in 1..Len(content) |->
                                    replace_markdown_link(content[j], footnotes)],
                      ret |-> _parse_response(
                                  Payload("completed", well_formed, content,
                                          annotations),
                                  Descriptor(1).ticker)]
    /\ UNCHANGED Batch
    /\ UNCHANGED Executor
    /\ UNCHANGED app

\* generate_commentary is called for a caller whose setting "require
\* citations" (gui.py line 932) is on or off; the function has no parameter
\* for it (lines 444-452).  The call keeps the result of line 477.
Call_generate_commentary ==
    /\ call = None
    /\ \E require_citations \in BOOLEAN,
          data \in TerminalData(Descriptor(1).prompt) :
         call' = [fn |-> "generate_commentary",
                  args |-> [require_citations |-> require_citations,
                            data |-> data],
                  parsed |-> _parse_response(data, Descriptor(1).ticker),
                  ret |-> generate_commentary(Descriptor(1), Returned(data))]
    /\ UNCHANGED Batch
    /\ UNCHANGED Executor
    /\ UNCHANGED app

\* No batch is running.
BatchIdle ==
    /\ requests = << >>
    /\ limit = max_concurrent
    /\ has_callback = FALSE
    /\ cancel_event = FALSE
    /\ cancel_at_start = FALSE
    /\ faults_left = 0
    /\ batch = "idle"
    /\ semaphore = 0
    /\ holding = {}
    /\ pc = << >>
    /\ attempt = << >>
    /\ posts = << >>
    /\ gets = << >>
    /\ last_resp = << >>
    /\ exec_exc = << >>
    /\ task_out = << >>
    /\ completed = 0
    /\ progress = << >>
    /\ finish_order = << >>
    /\ final_results = << >>
    /\ exec_ret = << >>
    /\ retry_after = << >>
    /\ retry_sleeps = << >>
    /\ sleeping = << >>
    /\ polls = << >>
    /\ poll_sleeps = << >>
    /\ elapsed_over = << >>

InitPure ==
    /\ BatchIdle
    /\ call = None
    /\ app = None

NextPure ==
    \/ Call_calculate_backoff
    \/ Call_make_request
    \/ Call_update_reasoning_levels
    \/ Call_parse_response
    \/ Call_generate_commentary

SpecPure == InitPure /\ [][NextPure]_vars



\* ------------------------------------------------------------ application
\* gui.py _compute_overall_progress, lines 157-178.
Max(a, b) == IF a >= b THEN a ELSE b

\* A translation that forgets the phases before.
_compute_overall_progress_no_offset(phase_completed, offset, overall_total) ==
    IF overall_total <= 0 THEN <<0, 0>>
    ELSE << Min(overall_total, Max(0, phase_completed)), overall_total >>

_compute_overall_progress(phase_completed, offset, overall_total) ==
    IF overall_total <= 0 THEN <<0, 0>>
    ELSE << Min(overall_total, offset + Max(0, phase_completed)), overall_total >>

\* gui.py _make_overall_progress_callback._callback, lines 196-204;
\* update_progress_fn appends to the events the UI receives.
_callback(events, offset, overall_total, item_id, phase_completed, _phase_total) ==
    LET overall == _compute_overall_progress(phase_completed, offset, overall_total)
    IN  IF overall[2] > 0
        THEN Append(events, << item_id, overall[1], overall[2] >>)
        ELSE events

\* _async_generate has built its requests (gui.py lines 1646-1726): C for
\* the commentary phase and A for the attribution phase (none when the
\* attribution overview is off or no portfolio has attribution data).
AsyncGenerate ==
    /\ app.phase = "idle"
    /\ call = None
    /\ \E C \in 0..MaxPhase, A \in 0..MaxPhase :
         app' = [app EXCEPT !.phase = "commentary",
                            !.commentary_total = C,
                            !.attribution_total = A,
                            !.completed = 0]
    /\ UNCHANGED Batch
    /\ UNCHANGED Executor
    /\ UNCHANGED call

\* A request of the commentary batch ends: the client calls the callback made
\* at gui.py lines 1730-1734 (offset 0) with the batch's own count and total.
CommentaryCompletes ==
    /\ app.phase = "commentary"
    /\ app.completed < app.commentary_total
    /\ app' = [app EXCEPT
                 !.completed = @ + 1,
                 !.events = _callback(@, 0,
                                      app.commentary_total + app.attribution_total,
                                      "AAPL", app.completed + 1,
                                      app.commentary_total)]
    /\ UNCHANGED Batch
    /\ UNCHANGED Executor
    /\ UNCHANGED call

\* The commentary batch has returned (gui.py lines 1747-1768); the
\* attribution phase is entered when there are attribution requests.
AttributionBegins ==
    /\ app.phase = "commentary"
    /\ app.completed = app.commentary_total
    /\ app' = [app EXCEPT
                 !.phase = IF app.attribution_total > 0 THEN "attribution" ELSE "done",
                 !.completed = 0]
    /\ UNCHANGED Batch
    /\ UNCHANGED Executor
    /\ UNCHANGED call

\* A request of the attribution batch ends: the callback made at gui.py lines
\* 1770-1774 (offset commentary_total) is called with the batch's own count
\* and total.
AttributionCompletes ==
    /\ app.phase = "attribution"
    /\ app.completed < app.attribution_total
    /\ app' = [app EXCEPT
                 !.completed = @ + 1,
                 !.events = _callback(@, app.commentary_total,
                                      app.commentary_total + app.attribution_total,
                                      "PORT1", app.completed + 1,
                                      app.attribution_total)]
    /\ UNCHANGED Batch
    /\ UNCHANGED Executor
    /\ UNCHANGED call

\* The attribution batch has returned (gui.py line 1789) and the run ends.
RunReturns ==
    /\ app.phase = "attribution"
    /\ app.completed = app.attribution_total
    /\ app' = [app EXCEPT !.phase = "done"]
    /\ UNCHANGED Batch
    /\ UNCHANGED Executor
    /\ UNCHANGED call

\* The callback of _make_overall_progress_callback is called alone, with any
\* offset, total and count.
Call_make_overall_progress_callback ==
    /\ call = None
    /\ app.phase = "idle"
    /\ \E offset \in 0..MaxPhase, overall_total \in 0..(2 * MaxPhase),
          phase_completed \in (0 - 1)..(MaxPhase + 1), _phase_total \in 0..MaxPhase :
         call' = [fn |-> "_make_overall_progress_callback",
                  args |-> [offset |-> offset, overall_total |-> overall_total,
                            completed |-> phase_completed,
                            _phase_total |-> _phase_total],
                  ret |-> _callback(<< >>, offset, overall_total, "ATTRIBUTION",
                                    phase_completed, _phase_total)]
    /\ UNCHANGED Batch
    /\ UNCHANGED Executor
    /\ UNCHANGED app

\* A portcode is what stands before the first "_" of a file name and a
\* ticker is a cell of the sheet: strings, as sequences of parts, "|" among
\* them.
Portcodes == { <<"XYZ">>, <<"ONE">>, <<"ONE", "|", "B">> }
RoutedTickers == { <<"AAPL">>, <<"B", "|", "AAPL">> }

\* f"{portcode}|{ticker}", gui.py line 151.
ErrorKey(portcode, ticker) == portcode \o <<"|">> \o ticker

\* The positions from `from` on at which flags is true, in order.
RECURSIVE Positions(_, _)
Positions(flags, from) ==
    IF from > Len(flags) THEN << >>
    ELSE IF flags[from] THEN <<from>> \o Positions(flags, from + 1)
    ELSE Positions(flags, from + 1)

\* A routing by ticker alone: one dict of results for all portfolios.
_organize_commentary_results_by_ticker(routed, results) ==
    LET n == Min(Len(routed), Len(results))
        last(ticker) ==
            CHOOSE i \in 1..n :
                /\ routed[i].ticker = ticker
                /\ \A j \in (i + 1)..n : routed[j].ticker # ticker
        failed(key) ==
            LET F(i) == /\ ~results[i].success
                        /\ ErrorKey(routed[i].portcode, routed[i].ticker) = key
            IN  Positions([i \in 1..n |-> F(i)], 1)
    IN  [commentary_results |->
             [portcode \in { routed[i].portcode : i \in 1..n } |->
                 [ticker \in { routed[i].ticker : i \in 1..n } |->
                     results[last(ticker)]]],
         errors |->
             [key \in { ErrorKey(routed[i].portcode, routed[i].ticker) :
                           i \in { j \in 1..n : ~results[j].success } } |->
                 [k \in 1..Len(failed(key)) |->
                     results[failed(key)[k]].error_message]]]

\* gui.py _organize_commentary_results_by_request, lines 123-154.  The loop
\* over zip(requests, results) writes commentary_results[portcode][ticker],
\* so the last request of a pair stays, and appends the message of a failure
\* to the list under its key.
_organize_commentary_results_by_request(routed, results) ==
    LET n == Min(Len(routed), Len(results))
        last(portcode, ticker) ==
            CHOOSE i \in 1..n :
                /\ routed[i].portcode = portcode /\ routed[i].ticker = ticker
                /\ \A j \in (i + 1)..n :
                     ~(routed[j].portcode = portcode /\ routed[j].ticker = ticker)
        failed(key) ==
            LET F(i) == /\ ~results[i].success
                        /\ ErrorKey(routed[i].portcode, routed[i].ticker) = key
            IN  Positions([i \in 1..n |-> F(i)], 1)
    IN  [commentary_results |->
             [portcode \in { routed[i].portcode : i \in 1..n } |->
                 [ticker \in { routed[i].ticker :
                                 i \in { j \in 1..n : routed[j].portcode = portcode } } |->
                     results[last(portcode, ticker)]]],
         errors |->
             [key \in { ErrorKey(routed[i].portcode, routed[i].ticker) :
                           i \in { j \in 1..n : ~results[j].success } } |->
                 [k \in 1..Len(failed(key)) |->
                     results[failed(key)[k]].error_message]]]

\* The results of a batch of n requests, each a success or a failure; the
\* text and the message of the i-th are those made for request i.
RoutedResult(req, i, success) ==
    IF success
    THEN CommentaryResult(req.ticker, <<Answer(i)>>, <<UrlX>>, TRUE, << >>)
    ELSE CommentaryResult(req.ticker, << >>, << >>, FALSE, <<"error of request", i>>)

\* The results of a batch are routed to the portfolios.
Call_organize_commentary_results_by_request ==
    /\ call = None
    /\ app.phase = "idle"
    /\ \E n \in 0..MaxRouted :
         \E portcodes \in [1..n -> Portcodes], tickers \in [1..n -> RoutedTickers],
            successes \in [1..n -> BOOLEAN] :
             LET routed == [i \in 1..n |->
                               [portcode |-> portcodes[i], ticker |-> tickers[i]]]
                 results == [i \in 1..n |-> RoutedResult(routed[i], i, successes[i])]
             IN  call' = [fn |-> "_organize_commentary_results_by_request",
                          args |-> [requests |-> routed, results |-> results],
                          ret |-> _organize_commentary_results_by_request(
                                      routed, results)]
    /\ UNCHANGED Batch
    /\ UNCHANGED Executor
    /\ UNCHANGED app

InitGui ==
    /\ BatchIdle
    /\ call = None
    /\ app = [phase |-> "idle", commentary_total |-> 0, attribution_total |-> 0,
              completed |-> 0, events |-> << >>]

NextGui ==
    \/ AsyncGenerate
    \/ CommentaryCompletes
    \/ AttributionBegins
    \/ AttributionCompletes
    \/ RunReturns
    \/ Call_make_overall_progress_callback
    \/ Call_organize_commentary_results_by_request

SpecGui == InitGui /\ [][NextGui]_vars

\* ------------------------------------------------------------- credentials
\* The values of OPENAI_API_KEY in the environment of the process, of the
\* entry of the system keychain, of the legacy "api_key" of config.json and
\* of the key typed into the settings dialog: no key, blanks, or a key (typed
\* with blanks around it, or not).
EnvKeys == {"", " ", "sk-env"}
StoredKeys == {"", "sk-old"}
ConfigKeys == {"", "sk-config"}
TypedKeys == {"", " ", "sk-new", " sk-new "}

\* str.strip() on these values, and bool(s) of Python.
str_strip(key) ==
    CASE key = " " -> ""
      [] key = " sk-new " -> "sk-new"
      [] OTHER -> key
bool(key) == key # ""

\* keystore.get_api_key, keystore.py lines 31-39.
get_api_key(a) == IF a.keyring_available THEN a.keychain ELSE ""

\* A load that asks the keychain first.
load_api_key_keychain_first(a) ==
    IF bool(get_api_key(a))
    THEN [a EXCEPT !.api_key = get_api_key(a), !.api_key_source = "keyring"]
    ELSE IF bool(a.environ)
    THEN [a EXCEPT !.api_key = a.environ, !.api_key_source = "env"]
    ELSE [a EXCEPT !.api_key = "", !.api_key_source = "none"]

\* gui.py load_api_key, lines 1311-1325.
load_api_key(a) ==
    IF bool(a.environ)
    THEN [a EXCEPT !.api_key = a.environ, !.api_key_source = "env"]
    ELSE IF bool(get_api_key(a))
    THEN [a EXCEPT !.api_key = get_api_key(a), !.api_key_source = "keyring"]
    ELSE [a EXCEPT !.api_key = "", !.api_key_source = "none"]

\* gui.py _migrate_api_key_from_config, lines 1327-1338; written tells
\* whether keystore.set_api_key stored the key (keystore.py lines 42-50).
_migrate_api_key_from_config(a, config_key, written) ==
    IF bool(str_strip(a.api_key)) \/ ~bool(str_strip(config_key)) THEN a
    ELSE IF a.keyring_available /\ written
    THEN [a EXCEPT !.api_key = config_key, !.api_key_source = "keyring",
                   !.keychain = config_key]
    ELSE [a EXCEPT !.api_key = config_key, !.api_key_source = "config"]

\* gui.py open_settings after Save, lines 1457-1504; written tells whether
\* the keychain took the write (set_api_key) or the deletion (delete_api_key,
\* keystore.py lines 53-64, whose result line 1463 does not read).
open_settings(a, typed, written) ==
    LET env_key == a.environ
        env_present == bool(env_key)
        new_key == str_strip(typed)
        saved == a.keyring_available /\ written
    IN  IF ~bool(new_key)
        THEN LET b == [a EXCEPT !.keychain =
                          IF a.keyring_available /\ written THEN "" ELSE @]
             IN  IF env_present
                 THEN [b EXCEPT !.api_key = env_key, !.api_key_source = "env"]
                 ELSE [b EXCEPT !.api_key = "", !.api_key_source = "none"]
        ELSE LET b == [a EXCEPT !.keychain = IF saved THEN new_key ELSE @]
             IN  IF env_present
                 THEN [b EXCEPT !.api_key = env_key, !.api_key_source = "env"]
                 ELSE IF saved
                 THEN [b EXCEPT !.api_key = new_key, !.api_key_source = "keyring"]
                 ELSE [b EXCEPT !.api_key = new_key, !.api_key_source = "session"]

\* CommentaryGeneratorApp.__init__, gui.py lines 909-943: the fields, then
\* load_api_key, then load_config with the legacy key of the config file.
\* last_op, typed and written keep the latest operation and its inputs, and
\* bearer the key of the client of the latest run ("" when there is none).
Constructed(environ, keyring_available, keychain, config_key, written) ==
    LET fresh == [environ |-> environ, keyring_available |-> keyring_available,
                  keychain |-> keychain, api_key |-> "", api_key_source |-> "none",
                  last_op |-> "__init__", typed |-> "", written |-> TRUE,
                  bearer |-> ""]
    IN  _migrate_api_key_from_config(load_api_key(fresh), config_key, written)

InitKey ==
    /\ BatchIdle
    /\ call = None
    /\ \E environ \in EnvKeys, keyring_available \in BOOLEAN,
          keychain \in StoredKeys, config_key \in ConfigKeys, written \in BOOLEAN :
         /\ ~keyring_available => keychain = ""
         /\ app = Constructed(environ, keyring_available, keychain, config_key,
                              written)

\* load_api_key is called.
LoadApiKey ==
    /\ app' = [load_api_key(app) EXCEPT !.last_op = "load_api_key",
                                        !.typed = "", !.written = TRUE,
                                        !.bearer = ""]
    /\ UNCHANGED Batch
    /\ UNCHANGED Executor
    /\ UNCHANGED call

\* The user opens the settings, types a key and saves; the keychain takes
\* the write or not.  (Cancel leaves everything as it is, line 1457.)
OpenSettings ==
    /\ \E typed \in TypedKeys, written \in BOOLEAN :
         app' = [open_settings(app, typed, written) EXCEPT
                   !.last_op = "open_settings",
                   !.typed = typed,
                   !.written = app.keyring_available /\ written,
                   !.bearer = ""]
    /\ UNCHANGED Batch
    /\ UNCHANGED Executor
    /\ UNCHANGED call

\* OpenAIClient.__init__, openai_client.py lines 102-104.
OpenAIClient__init__(api_key, environ) ==
    IF bool(api_key) THEN api_key
    ELSE IF bool(environ) THEN environ
    ELSE "ValueError"

\* A run is started: validate_inputs wants a key that is not blank (gui.py
\* line 1546) and _async_generate builds its client with it (line 1735).
MakeClient ==
    /\ bool(str_strip(app.api_key))
    /\ app.bearer = ""
    /\ app' = [app EXCEPT !.bearer =
                  OpenAIClient__init__(str_strip(app.api_key), app.environ)]
    /\ UNCHANGED Batch
    /\ UNCHANGED Executor
    /\ UNCHANGED call

NextKey ==
    \/ LoadApiKey
    \/ OpenSettings
    \/ MakeClient

SpecKey == InitKey /\ [][NextKey]_vars

\* ------------------------------------------------------ selection and output
\* SecurityRow (excel_parser.py lines 19-25): contribution and weight are in
\* hundredths; the name and the GICS code play no part in the selection.
SecurityRow(ticker, port_ending_weight, contribution_to_return) ==
    [ticker |-> ticker, port_ending_weight |-> port_ending_weight,
     contribution_to_return |-> contribution_to_return]

\* RankedSecurity (selection_engine.py lines 29-33).
RankedSecurity(security, rank, security_type) ==
    [security |-> security, rank |-> rank, security_type |-> security_type]

\* The sort keys of lines 91 and 95, as tuples compared the way Python
\* compares them.
TupleLess(a, b) == a[1] < b[1] \/ (a[1] = b[1] /\ a[2] < b[2])
ContributorKey(sec) == << 0 - sec.contribution_to_return, 0 - sec.port_ending_weight >>
DetractorKey(sec) == << sec.contribution_to_return, 0 - sec.port_ending_weight >>

RECURSIVE InsertByKey(_, _)
\* list.sort(key=...) is stable: an element goes after those whose key is
\* not greater and that came before it.  The elements are <<key, security>>.
InsertByKey(sorted, keyed) ==
    IF sorted = << >> THEN <<keyed>>
    ELSE IF ~TupleLess(keyed[1], sorted[Len(sorted)][1])
         THEN Append(sorted, keyed)
         ELSE Append(InsertByKey(SubSeq(sorted, 1, Len(sorted) - 1), keyed),
                     sorted[Len(sorted)])

RECURSIVE SortKeyed(_)
SortKeyed(list) ==
    IF list = << >> THEN << >>
    ELSE InsertByKey(SortKeyed(SubSeq(list, 1, Len(list) - 1)), list[Len(list)])

\* keys[i] is the key of list[i].
SortByKey(list, keys) ==
    LET sorted == SortKeyed([i \in 1..Len(list) |-> << keys[i], list[i] >>])
    IN  [i \in 1..Len(sorted) |-> sorted[i][2]]

\* list[:n] for n >= 0.
Slice(list, n) == SubSeq(list, 1, Min(n, Len(list)))

IsPositive(sec) == sec.contribution_to_return > 0
IsNegative(sec) == sec.contribution_to_return < 0

\* A selection whose sorts have no tie-breaker.
ContributionOnly(sec) == << 0 - sec.contribution_to_return, 0 >>
ContributionOnlyAscending(sec) == << sec.contribution_to_return, 0 >>
select_top_bottom_without_tie_breaker(securities, n) ==
    LET gains == SelectSeq(securities, IsPositive)
        losses == SelectSeq(securities, IsNegative)
        top_contributors ==
            Slice(SortByKey(gains, [i \in 1..Len(gains) |->
                                       ContributionOnly(gains[i])]), n)
        top_detractors ==
            Slice(SortByKey(losses, [i \in 1..Len(losses) |->
                                        ContributionOnlyAscending(losses[i])]), n)
    IN  [contributors |-> [i \in 1..Len(top_contributors) |->
                              RankedSecurity(top_contributors[i], i, "Contributor")],
         detractors |-> [i \in 1..Len(top_detractors) |->
                            RankedSecurity(top_detractors[i], i, "Detractor")]]

\* selection_engine.py select_top_bottom, lines 72-120.
select_top_bottom(securities, n) ==
    LET gains == SelectSeq(securities, IsPositive)
        losses == SelectSeq(securities, IsNegative)
        positive == SortByKey(gains, [i \in 1..Len(gains) |->
                                         ContributorKey(gains[i])])
        negative == SortByKey(losses, [i \in 1..Len(losses) |->
                                          DetractorKey(losses[i])])
        top_contributors == Slice(positive, n)
        top_detractors == Slice(negative, n)
    IN  [contributors |-> [i \in 1..Len(top_contributors) |->
                              RankedSecurity(top_contributors[i], i, "Contributor")],
         detractors |-> [i \in 1..Len(top_detractors) |->
                            RankedSecurity(top_detractors[i], i, "Detractor")]]

\* output_generator.py format_citations, lines 34-49: the lines "[i] url",
\* joined by newlines; "" for no citation.
format_citations(citations) ==
    [i \in 1..Len(citations) |-> << "[", i, "] ", citations[i] >>]

\* OutputRow (output_generator.py lines 20-31); the fields copied from the
\* security are left to the ranked security itself.
OutputRow(ranked_sec, commentary, sources, is_error) ==
    [ticker |-> ranked_sec.security.ticker, ranked |-> ranked_sec,
     commentary |-> commentary, sources |-> sources, is_error |-> is_error]

\* A writer that leaves out the securities without a result.
merge_results_skipping_missing(ranked_securities, commentary_results) ==
    LET HasResult(ranked_sec) ==
            ranked_sec.security.ticker \in DOMAIN commentary_results
        present == SelectSeq(ranked_securities, HasResult)
    IN  [j \in 1..Len(present) |->
            LET result == commentary_results[present[j].security.ticker]
            IN  IF result.success
                THEN OutputRow(present[j], result.commentary,
                               format_citations(result.citations), FALSE)
                ELSE OutputRow(present[j], <<"ERROR: ">> \o result.error_message,
                               << >>, TRUE)]

\* output_generator.py merge_results, lines 52-97; commentary_results.get is
\* None for a ticker that is no key of the dict.
merge_results(ranked_securities, commentary_results) ==
    [j \in 1..Len(ranked_securities) |->
        LET ranked_sec == ranked_securities[j]
            ticker == ranked_sec.security.ticker
        IN  IF ticker \in DOMAIN commentary_results
            THEN LET result == commentary_results[ticker]
                 IN  IF result.success
                     THEN OutputRow(ranked_sec, result.commentary,
                                    format_citations(result.citations), FALSE)
                     ELSE OutputRow(ranked_sec,
                                    <<"ERROR: ">> \o result.error_message,
                                    << >>, TRUE)
            ELSE OutputRow(ranked_sec, <<"ERROR: No commentary generated">>,
                           << >>, TRUE)]

\* The securities the selection is applied to: gains, losses and a security
\* of no contribution, with equal contributions of different weight.
Securities ==
    { SecurityRow(t, w, c) : t \in {"A"}, w \in {1, 2}, c \in (0 - 2)..2 }
SecurityLists ==
    UNION { [1..m -> Securities] : m \in 0..MaxSecurities }

\* select_top_bottom is applied to the securities of a portfolio.
Call_select_top_bottom ==
    /\ call = None
    /\ \E securities \in SecurityLists, n \in 0..MaxN :
         call' = [fn |-> "select_top_bottom",
                  args |-> [securities |-> securities, n |-> n],
                  ret |-> select_top_bottom(securities, n)]
    /\ UNCHANGED Batch
    /\ UNCHANGED Executor
    /\ UNCHANGED app

\* The results the writer may find for a ticker: a success with two
\* citations or with none, a failure with a message or with an empty one.
WriterResults(ticker) ==
    { CommentaryResult(ticker, <<Answer(ticker)>>, <<UrlX, UrlB>>, TRUE, << >>),
      CommentaryResult(ticker, <<Answer(ticker)>>, << >>, TRUE, << >>),
      CommentaryResult(ticker, << >>, << >>, FALSE, <<"API timeout">>),
      CommentaryResult(ticker, << >>, << >>, FALSE, << >>) }
WriterTickers == {"AAPL", "MSFT", "NVDA"}

\* merge_results is applied to the selection of a portfolio and the results
\* routed to it, which may lack a ticker.
Call_merge_results ==
    /\ call = None
    /\ \E m \in 0..MaxSelected :
         \E tickers \in [1..m -> WriterTickers], with \in SUBSET WriterTickers :
           \E commentary_results \in
                  { f \in [with -> UNION { WriterResults(t) : t \in WriterTickers }] :
                      \A t \in with : f[t] \in WriterResults(t) } :
             LET ranked_securities ==
                     [j \in 1..m |->
                         RankedSecurity(SecurityRow(tickers[j], 1, 1), j, "Contributor")]
             IN  call' = [fn |-> "merge_results",
                          args |-> [ranked_securities |-> ranked_securities,
                                    commentary_results |-> commentary_results],
                          ret |-> merge_results(ranked_securities,
                                                commentary_results)]
    /\ UNCHANGED Batch
    /\ UNCHANGED Executor
    /\ UNCHANGED app

NextOutput ==
    \/ Call_select_top_bottom
    \/ Call_merge_results

SpecOutput == InitPure /\ [][NextOutput]_vars

\* ------------------------------------------------------------- the poller
\* The statuses a status GET may give, and a payload without the key.
Statuses ==
    {"completed", "succeeded", "failed", "cancelled", "expired",
     "queued", "in_progress", "running", "unknown", ""}
StatusPayloads ==
    { [id |-> "resp_1", status |-> status] : status \in Statuses }
        \cup { [id |-> "resp_1"] }

\* data.get("status", ""), line 211.
get_status(data) == IF "status" \in DOMAIN data THEN data.status ELSE ""

\* What an iteration of the loop meets: the clock at its head (elapsed over
\* max_wait or not) and the payload of its status GET.
PollAnswers ==
    { [over |-> over, data |-> data] : over \in BOOLEAN, data \in StatusPayloads }

RECURSIVE _poll_response_status_sleeping_first(_, _, _)
\* A poller that sleeps before it looks at the status.
_poll_response_status_sleeping_first(answers, k, trace) ==
    IF k > Len(answers) THEN [kind |-> "pending", trace |-> trace]
    ELSE IF RaisesAtLoopHead(answers[k].over)
    THEN [kind |-> "raise", exc |-> PollingTimeout, trace |-> trace]
    ELSE LET data == answers[k].data
             slept == trace \o <<"GET", "sleep">>
         IN  IF IsTerminal(get_status(data))
             THEN [kind |-> "return", data |-> data, trace |-> slept]
             ELSE _poll_response_status_sleeping_first(answers, k + 1, slept)

RECURSIVE _poll_response_status(_, _, _)
\* openai_client.py _poll_response_status, lines 196-218, from its k-th
\* iteration on: the GETs and sleeps made so far are in trace; the answers
\* of the transport are given for Len(answers) iterations, after which the
\* poller is still at work ("pending").
_poll_response_status(answers, k, trace) ==
    IF k > Len(answers) THEN [kind |-> "pending", trace |-> trace]
    ELSE IF RaisesAtLoopHead(answers[k].over)
    THEN [kind |-> "raise", exc |-> PollingTimeout, trace |-> trace]
    ELSE LET data == answers[k].data
             got == Append(trace, "GET")
         IN  IF IsTerminal(get_status(data))
             THEN [kind |-> "return", data |-> data, trace |-> got]
             ELSE _poll_response_status(answers, k + 1, Append(got, "sleep"))

\* _poll_response_status is called for an accepted job and meets the given
\* clock readings and answers.
Call_poll_response_status ==
    /\ call = None
    /\ \E n \in 0..MaxPolls :
         \E answers \in [1..n -> PollAnswers] :
           call' = [fn |-> "_poll_response_status",
                    args |-> [answers |-> answers],
                    ret |-> _poll_response_status(answers, 1, << >>)]
    /\ UNCHANGED Batch
    /\ UNCHANGED Executor
    /\ UNCHANGED app

NextPoll ==
    Call_poll_response_status

SpecPoll == InitPure /\ [][NextPoll]_vars

\* ------------------------------------------------- threads of the application
\* The UI thread (Tk) and the generation workers of CommentaryGeneratorApp.
\* A reference that is None.
NoRef == 0

\* The workers (threads) a sequence of run_generation calls may start; worker
\* w makes the event loop w and the asyncio.Event w.
Workers == 1..MaxRuns

\* (completed / total) * 100 if total > 0 else 0 (gui.py line 1524), as the
\* fraction num / den.
Percent(count, total) ==
    IF total > 0 THEN [num |-> count * 100, den |-> total]
    ELSE [num |-> 0, den |-> 1]

\* The callables put on the UI callback queue.
StatusCallback(text) == [name |-> "status_var.set", text |-> text, run |-> 0]
OutcomeCallback(outcome, w) == [name |-> outcome, text |-> "", run |-> w]
EnableCallback(w) == [name |-> "run_btn.configure", text |-> "normal", run |-> w]

\* The application after __init__ (gui.py lines 905-946): nothing runs, the
\* queues are empty, and the first drain (line 944) has scheduled the next.
\* The texts of the status line are left out.
InitUi ==
    /\ BatchIdle
    /\ call = None
    /\ app = [is_running |-> FALSE,
              _cancel_requested |-> FALSE,
              _generation_loop |-> NoRef,
              _cancel_event |-> NoRef,
              _progress_queue |-> << >>,
              _ui_callback_queue |-> << >>,
              run_btn |-> "normal",
              progress_var |-> Percent(0, 0),
              events_set |-> {},
              loop_calls |-> {},
              runs |-> 0,
              worker |-> [w \in Workers |->
                             [pc |-> "none", outcome |-> "none", sent |-> 0,
                              attribution |-> FALSE, passed |-> NoRef,
                              signalled |-> FALSE, enqueued |-> << >>]],
              ui |-> [op |-> "idle"],
              after_pending |-> 1,
              tick |-> [drains |-> 0, puts |-> 0, taken |-> << >>, called |-> << >>,
                        raises |-> << >>, after_calls |-> 1],
              faults |-> 0,
              cancel |-> "none"]

UiFrame ==
    /\ UNCHANGED Batch
    /\ UNCHANGED Executor
    /\ UNCHANGED call

At(w, pc_) == app.worker[w].pc = pc_

\* _enqueue_ui_callback (lines 1510-1512), for each of the callbacks.
Put(a, w, callbacks) ==
    [a EXCEPT !._ui_callback_queue = @ \o callbacks]

\* _run_generation_thread leaves its try block (lines 1595-1602): the one
\* callback of the outcome is put on the queue.  What the thread itself has
\* queued from line 1595 on is kept with it.
Ends(a, w, outcome) ==
    [Put(a, w, <<OutcomeCallback(outcome, w)>>) EXCEPT
        !.worker[w].pc = "finally", !.worker[w].outcome = outcome,
        !.worker[w].enqueued = Append(@, OutcomeCallback(outcome, w))]

\* ------------------------------------------------------------- UI thread
\* run_generation past its two early returns (lines 1569-1581): the flags
\* are set and the next worker thread is started.
StartWorker(a, attribution) ==
    LET w == a.runs + 1
    IN  [a EXCEPT !.is_running = TRUE,
                  !._cancel_requested = FALSE,
                  !.run_btn = "disabled",
                  !.progress_var = Percent(0, 0),
                  !.runs = w,
                  !.cancel = "none",
                  !.worker[w].pc = "start",
                  !.worker[w].attribution = attribution]

\* run_generation (lines 1560-1581), called by the run button, which Tk
\* leaves dead while it is disabled.  A refusal of validate_inputs leaves
\* everything as it is.
run_generation(a, attribution) ==
    IF a.is_running THEN a
    ELSE StartWorker(a, attribution)

RunGeneration ==
    /\ app.ui.op = "idle"
    /\ app.run_btn = "normal"
    /\ app.runs < MaxRuns
    /\ \E attribution \in BOOLEAN : app' = run_generation(app, attribution)
    /\ app' # app
    /\ UiFrame

\* request_cancel (lines 1835-1841) is entered while a run is active: the
\* flag is set (line 1837) and the button disabled.
RequestCancelBegins ==
    /\ app.ui.op = "idle"
    /\ app.is_running
    /\ app.cancel = "none"
    /\ app' = [app EXCEPT !._cancel_requested = TRUE,
                          !.run_btn = "disabled",
                          !.cancel = "requested",
                          !.ui = [op |-> "request_cancel", at |-> "if"]]
    /\ UiFrame

\* line 1840: `if self._generation_loop and self._cancel_event`.
RequestCancelChecks ==
    /\ app.ui.op = "request_cancel"
    /\ app.ui.at = "if"
    /\ app' = IF app._generation_loop # NoRef /\ app._cancel_event # NoRef
              THEN [app EXCEPT !.ui = [op |-> "request_cancel", at |-> "loop"]]
              ELSE [app EXCEPT !.ui = [op |-> "idle"],
                               !.cancel = "not scheduled"]
    /\ UiFrame

\* line 1841: self._generation_loop is read again for its
\* call_soon_threadsafe; on None that is an AttributeError.
RequestCancelReadsLoop ==
    /\ app.ui.op = "request_cancel"
    /\ app.ui.at = "loop"
    /\ app' = IF app._generation_loop # NoRef
              THEN [app EXCEPT !.ui = [op |-> "request_cancel", at |-> "event",
                                       loop |-> app._generation_loop]]
              ELSE [app EXCEPT !.ui = [op |-> "idle"],
                               !.faults = @ + 1,
                               !.cancel = "AttributeError"]
    /\ UiFrame

\* line 1841: self._cancel_event is read again for its set method, and the
\* call is handed to the loop.
RequestCancelSchedules ==
    /\ app.ui.op = "request_cancel"
    /\ app.ui.at = "event"
    /\ app' = IF app._cancel_event # NoRef
              THEN [app EXCEPT !.ui = [op |-> "idle"],
                               !.loop_calls = @ \cup {<<app.ui.loop, app._cancel_event>>},
                               !.cancel = "scheduled"]
              ELSE [app EXCEPT !.ui = [op |-> "idle"],
                               !.faults = @ + 1,
                               !.cancel = "AttributeError"]
    /\ UiFrame

\* A drain whose callback loop has no try of its own.
callback_errors_propagate == FALSE

\* lines 1534-1537: `except Exception` around callback().
callback_errors_caught == TRUE

\* The callbacks of a run's outcome (lines 1857-1914), which open dialogs
\* and files and may raise; setting a Tk variable or a button's state does
\* not.
OutcomeCallbacks ==
    {"_on_generation_complete", "_on_generation_cancelled", "_on_generation_error"}

\* What a queued callback does to the widgets when it runs to its end.
Apply(a, cb) ==
    CASE cb.name = "status_var.set" -> a
      [] cb.name \in OutcomeCallbacks ->
             [a EXCEPT !.progress_var = Percent(0, 0)]
      [] cb.name = "run_btn.configure" ->
             [a EXCEPT !.run_btn = cb.text]

RECURSIVE RunCallbacks(_, _, _, _, _)
\* lines 1528-1537: the queued callbacks from the k-th on are taken and
\* called in turn; raises[k] tells whether the k-th raises.  An outcome
\* callback has set the progress bar before anything in it can raise
\* (lines 1859, 1893, 1912) or sets it in its finally (line 1889).  The
\* result is the application after the loop, the callbacks called, and
\* whether the loop was left by its break.
RunCallbacks(a, callbacks, raises, k, called) ==
    IF k > Len(callbacks) THEN [app |-> a, called |-> called, finished |-> TRUE]
    ELSE LET cb == callbacks[k]
             taken == [a EXCEPT !._ui_callback_queue = Tail(@)]
         IN  IF ~raises[k]
             THEN RunCallbacks(Apply(taken, cb), callbacks, raises, k + 1, Append(called, cb))
             ELSE IF callback_errors_caught
             THEN RunCallbacks(Apply(taken, cb), callbacks, raises, k + 1, Append(called, cb))
             ELSE [app |-> Apply(taken, cb), called |-> Append(called, cb), finished |-> FALSE]

\* _schedule_progress_queue_drain (lines 1514-1539), run by the timer of
\* root.after: the progress queue is emptied (get_nowait until Empty) and
\* the last event taken is shown; the callbacks queued are called; the
\* drain schedules itself again.  What a worker puts while the drain runs
\* and after the drain saw a queue empty is there for the next drain.  The
\* result is the application after the drain, the callbacks it called and
\* the number of its root.after calls.
_schedule_progress_queue_drain(a, raises) ==
    LET taken == a._progress_queue
        latest == taken[Len(taken)]
        shown == [a EXCEPT
                    !.after_pending = @ - 1,
                    !._progress_queue = << >>,
                    !.progress_var =
                        IF taken # << >> THEN Percent(latest[2], latest[3]) ELSE @]
        ran == RunCallbacks(shown, a._ui_callback_queue, raises, 1, << >>)
    IN  IF ran.finished
        THEN [app |-> [ran.app EXCEPT !.after_pending = @ + 1],
              called |-> ran.called, after_calls |-> 1]
        ELSE [app |-> ran.app, called |-> ran.called, after_calls |-> 0]

\* Which of the queued callbacks raise in a drain: the outcome callbacks
\* may.
Raises(a) ==
    {raises \in [1..Len(a._ui_callback_queue) -> BOOLEAN] :
        \A k \in DOMAIN raises :
            raises[k] => a._ui_callback_queue[k].name \in OutcomeCallbacks}

Drain ==
    /\ app.ui.op = "idle"
    /\ app.after_pending > 0
    /\ \E raises \in Raises(app) :
         app' = _schedule_progress_queue_drain(app, raises).app
    /\ app' # app
    /\ UiFrame

\* ------------------------------------------------------------ the worker
\* _run_generation_thread, lines 1587-1589.
ThreadSetsLoop(w) ==
    /\ At(w, "start")
    /\ app' = [app EXCEPT !._generation_loop = w, !.worker[w].pc = "event"]
    /\ UiFrame

\* line 1590.
ThreadSetsEvent(w) ==
    /\ At(w, "event")
    /\ app' = [app EXCEPT !._cancel_event = w, !.worker[w].pc = "check"]
    /\ UiFrame

\* lines 1591-1592: `if self._cancel_requested: self._cancel_event.set()`;
\* on None the set is an AttributeError, which the thread reports as an
\* error (line 1601).
ThreadChecksRequested(w) ==
    /\ At(w, "check")
    /\ app' = IF ~app._cancel_requested
              THEN [app EXCEPT !.worker[w].pc = "generate"]
              ELSE IF app._cancel_event # NoRef
              THEN [app EXCEPT !.events_set = @ \cup {app._cancel_event},
                               !.worker[w].pc = "generate"]
              ELSE Ends(app, w, "_on_generation_error")
    /\ UiFrame

\* _async_generate up to its first batch call (lines 1609-1754): the files
\* are parsed, the requests built and the batch called with the event the
\* application holds at that time; parsing may raise.  Of the status texts
\* the run queues (lines 1616, 1742, 1768, 1802) the one before the first
\* batch is kept.
AsyncGenerateBegins(w) ==
    /\ At(w, "generate")
    /\ \/ app' = [Put(app, w, <<StatusCallback("Generating commentary...")>>)
                     EXCEPT !.worker[w].pc = "commentary",
                            !.worker[w].passed = app._cancel_event]
       \/ app' = Ends(app, w, "_on_generation_error")
    /\ UiFrame

InBatch(w) == app.worker[w].pc \in {"commentary", "attribution"}

\* The progress callback of a batch calls update_progress (lines 1506-1508)
\* with the run's counts.
UpdateProgress(w) ==
    /\ InBatch(w)
    /\ app.worker[w].sent < MaxEvents
    /\ app' = [app EXCEPT
                 !._progress_queue =
                     Append(@, <<"AAPL", app.worker[w].sent + 1, MaxProgress>>),
                 !.worker[w].sent = @ + 1]
    /\ UiFrame

\* The loop of worker w, which runs while _async_generate awaits a batch,
\* makes a call handed to it by call_soon_threadsafe: the event is set.
LoopRunsCall(w) ==
    /\ InBatch(w)
    /\ \E c \in app.loop_calls :
         /\ c[1] = w
         /\ app' = [app EXCEPT !.loop_calls = @ \ {c},
                               !.events_set = @ \cup {c[2]}]
    /\ UiFrame

\* lines 1756-1757 and 1790-1791: `if self._cancel_event and
\* self._cancel_event.is_set()`.
IsSetChecked(a) ==
    a._cancel_event # NoRef /\ a._cancel_event \in a.events_set

\* A batch call returns its results (lines 1747-1791); the event is looked
\* at, and the run goes on to the attribution batch, or to the workbook and
\* the log (lines 1802-1821), which may raise.
BatchReturns(w) ==
    /\ InBatch(w)
    /\ LET last == At(w, "attribution") \/ ~app.worker[w].attribution
           seen == [app EXCEPT !.worker[w].signalled = last /\ w \in app.events_set]
       IN  IF IsSetChecked(app)
           THEN app' = Ends(seen, w, "_on_generation_cancelled")
           ELSE IF ~last
           THEN app' = [seen EXCEPT !.worker[w].pc = "attribution",
                                  !.worker[w].passed = app._cancel_event]
           ELSE \E outcome \in {"_on_generation_complete", "_on_generation_error"} :
                  app' = Ends(seen, w, outcome)
    /\ UiFrame

\* A batch call raises: asyncio.CancelledError when the event it was given
\* is set, or another exception.
BatchRaises(w) ==
    /\ InBatch(w)
    /\ \/ /\ app.worker[w].passed # NoRef
          /\ app.worker[w].passed \in app.events_set
          /\ app' = Ends(app, w, "_on_generation_cancelled")
       \/ app' = Ends(app, w, "_on_generation_error")
    /\ UiFrame

\* The finally block, lines 1603-1607, statement by statement.
FinallyClearsRunning(w) ==
    /\ At(w, "finally")
    /\ app' = [app EXCEPT !.is_running = FALSE, !.worker[w].pc = "finally enable"]
    /\ UiFrame

FinallyEnqueuesEnable(w) ==
    /\ At(w, "finally enable")
    /\ app' = [Put(app, w, <<EnableCallback(w)>>) EXCEPT
                  !.worker[w].pc = "finally loop",
                  !.worker[w].enqueued = Append(@, EnableCallback(w))]
    /\ UiFrame

FinallyClearsLoop(w) ==
    /\ At(w, "finally loop")
    /\ app' = [app EXCEPT !._generation_loop = NoRef,
                          !.worker[w].pc = "finally event"]
    /\ UiFrame

FinallyClearsEvent(w) ==
    /\ At(w, "finally event")
    /\ app' = [app EXCEPT !._cancel_event = NoRef, !.worker[w].pc = "done"]
    /\ UiFrame

WorkerStep(w) ==
    \/ ThreadSetsLoop(w)
    \/ ThreadSetsEvent(w)
    \/ ThreadChecksRequested(w)
    \/ AsyncGenerateBegins(w)
    \/ UpdateProgress(w)
    \/ LoopRunsCall(w)
    \/ BatchReturns(w)
    \/ BatchRaises(w)
    \/ FinallyClearsRunning(w)
    \/ FinallyEnqueuesEnable(w)
    \/ FinallyClearsLoop(w)
    \/ FinallyClearsEvent(w)

NextUi ==
    \/ RunGeneration
    \/ RequestCancelBegins
    \/ RequestCancelChecks
    \/ RequestCancelReadsLoop
    \/ RequestCancelSchedules
    \/ Drain
    \/ \E w \in Workers : WorkerStep(w)

SpecUi == InitUi /\ [][NextUi]_vars

\* ---------------------------------------------------------- the drain alone
\* update_progress (lines 1506-1508), called from any thread with any
\* counts.
update_progress(a, ticker, count, total) ==
    [a EXCEPT !._progress_queue = Append(@, <<ticker, count, total>>)]

UpdateProgressCall ==
    /\ app.tick.puts < MaxPuts
    /\ \E count \in 0..MaxProgress, total \in {0, MaxProgress} :
         /\ count <= total
         /\ app' = [update_progress(app, "AAPL", count, total) EXCEPT !.tick.puts = @ + 1]
    /\ UiFrame

\* _enqueue_ui_callback (lines 1510-1512), called from any thread.
EnqueueUiCallback ==
    /\ app.tick.puts < MaxPuts
    /\ \E cb \in {StatusCallback("Generating commentary..."),
                   OutcomeCallback("_on_generation_complete", 1),
                   EnableCallback(1)} :
         app' = [Put(app, 1, <<cb>>) EXCEPT !.tick.puts = @ + 1]
    /\ UiFrame

\* A drain, of which the progress events it took, the callbacks it called,
\* the ones that raised and its root.after calls are kept.
DrainTick ==
    /\ app.after_pending > 0
    /\ app.tick.drains < MaxDrains
    /\ \E raises \in Raises(app) :
         LET drained == _schedule_progress_queue_drain(app, raises)
         IN  app' = [drained.app EXCEPT !.tick.drains = @ + 1,
                                        !.tick.taken = app._progress_queue,
                                        !.tick.called = drained.called,
                                        !.tick.raises = raises,
                                        !.tick.after_calls = drained.after_calls]
    /\ UiFrame

NextDrain ==
    \/ UpdateProgressCall
    \/ EnqueueUiCallback
    \/ DrainTick

SpecDrain == InitUi /\ [][NextDrain]_vars

\* ------------------------------------------------------------------ claims

InExecutor(i) == pc[i] \in {"post", "backoff", "get", "poll_sleep"}

\* C1: a batch call that has returned gives a list with one entry per
\* request, and entry i is the result made for request i: it carries request
\* i's ticker, and a successful entry holds the text that answers request i's
\* prompt, in whatever order the tasks ended.
C1_ResultsMatchRequests ==
    batch = "returned" =>
        /\ Len(final_results) = Len(requests)
        /\ \A i \in Tasks :
            /\ final_results[i].ticker = requests[i].ticker
            /\ final_results[i].success =>
                 final_results[i].commentary = <<Answer(requests[i].prompt)>>

\* C1 witness: a batch of two returned after the second task ended first, both
\* entries successful.
C1_Witness ==
    /\ batch = "returned"
    /\ Len(requests) = 2
    /\ finish_order = <<2, 1>>
    /\ final_results[1].success
    /\ final_results[2].success

\* C2: at every moment the tasks inside the gate are at most the concurrency
\* limit, the semaphore's value is the limit less the tasks inside, a task
\* whose executor call is in progress is inside, and a task that has ended
\* (it returned or it raised) or has not started is not.
C2_GateBounded ==
    /\ Cardinality(holding) <= limit
    /\ batch # "idle" => semaphore = limit - Cardinality(holding)
    /\ \A i \in Tasks :
        /\ InExecutor(i) => i \in holding
        /\ pc[i] \in {"waiting", "done"} => i \notin holding

\* C2 witness: with limit 1, the first task has ended by raising and has
\* given up its slot, and the second task holds the only slot.
C2_Witness ==
    /\ limit = 1
    /\ Len(requests) = 2
    /\ task_out[1] # None
    /\ task_out[1].kind = "exception"
    /\ holding = {2}
    /\ semaphore = 0


IsCommentaryResult(e) ==
    DOMAIN e = {"ticker", "commentary", "citations", "success", "error_message"}

Cancelled(i) == exec_exc[i].type = "CancelledError"

\* C3: once the cancellation signal is set, no task of the batch issues
\* another POST or status GET, and the batch call does not return a list.
C3_NoCallAfterCancel ==
    [][cancel_event =>
          /\ \A i \in Tasks : posts'[i] = posts[i] /\ gets'[i] = gets[i]
          /\ batch' = "returned" => batch = "returned"]_vars

\* C4: when the signal is set before the executor is invoked, the executor of
\* every task that has started has issued no POST and has raised a
\* cancellation error.
C4_CancelledBeforePost ==
    cancel_at_start =>
        \A i \in Tasks :
            pc[i] # "waiting" => posts[i] = 0 /\ Cancelled(i)

PollIterationBegins(i) ==
    \/ pc[i] = "post" /\ pc'[i] = "get"
    \/ pc[i] = "poll_sleep" /\ pc'[i] # "poll_sleep"

\* C5: a poll iteration that begins while the signal is set issues no status
\* GET and raises a cancellation error.
C5_PollChecksCancel ==
    [][\A i \in Tasks :
          cancel_event /\ PollIterationBegins(i) =>
              gets'[i] = gets[i] /\ exec_exc'[i].type = "CancelledError"]_vars

\* C6: a batch started with the signal set attempts no network call, and
\* ends as cancelled.
C6_CancelledBatchMakesNoCall ==
    cancel_at_start =>
        /\ \A i \in Tasks : posts[i] = 0 /\ gets[i] = 0
        /\ batch \in {"returned", "raised"} => RunOutcome = "cancelled"

\* C7: a batch during which the signal became set does not return a list.
C7_CancelNeverReturnsList ==
    ~(batch = "returned" /\ cancel_event /\ ~cancel_at_start)

FailureCarrying(e, msg) ==
    /\ IsCommentaryResult(e)
    /\ e.success = FALSE
    /\ e.commentary = << >>
    /\ e.citations = << >>
    /\ e.error_message = msg

\* C8: the batch call never raises because of an item; in the list it returns
\* every entry is a result record; the entry of an item whose task raised
\* (the progress callback raised) is a failure with the exception's message;
\* the entry of an item whose executor raised is a failure with that
\* exception's message after "API request failed: "; every other entry is the
\* result its own task returned.
C8_ItemFailureIsolated ==
    /\ batch # "raised"
    /\ batch = "returned" =>
        \A i \in Tasks :
            /\ IsCommentaryResult(final_results[i])
            /\ task_out[i].kind = "exception" =>
                 FailureCarrying(final_results[i], task_out[i].exc.msg)
            /\ task_out[i].kind = "result" => final_results[i] = task_out[i].value
            /\ task_out[i].kind = "result" /\ exec_exc[i] # None =>
                 FailureCarrying(final_results[i],
                                 <<"API request failed: ">> \o exec_exc[i].msg)

\* C8 witness: a batch of two has returned; the task of the first item raised,
\* the executor of the second raised, and each entry is its item's failure.
C8_Witness ==
    /\ batch = "returned"
    /\ Len(requests) = 2
    /\ task_out[1].kind = "exception"
    /\ task_out[1].exc.msg # << >>
    /\ task_out[2].kind = "result"
    /\ exec_exc[2] = TimeoutException
    /\ final_results[1].error_message = task_out[1].exc.msg
    /\ final_results[2].error_message = <<"API request failed: ">>

SuccessIffNoMessage(e) == (e.success = FALSE) <=> (e.error_message # << >>)

\* C9: in every result a task returned and in every entry of the returned
\* list, success is false exactly when error_message is not empty.
C9_SuccessIffNoMessage ==
    /\ \A i \in Tasks :
        (task_out[i] # None /\ task_out[i].kind = "result") =>
            SuccessIffNoMessage(task_out[i].value)
    /\ batch = "returned" =>
        \A i \in Tasks : SuccessIffNoMessage(final_results[i])

\* C10: a request whose POST timed out has ended: its executor raised the
\* timeout, no POST followed (the POSTs issued are those of the attempts up to
\* the one that timed out), and the item's result is the failure with the
\* timeout's message.
C10_TimeoutNotRetried ==
    \A i \in Tasks :
        last_resp[i] = "POST timeout" =>
            /\ pc[i] = "done"
            /\ exec_exc[i] = TimeoutException
            /\ posts[i] = attempt[i] + 1
            /\ task_out[i].kind = "result" =>
                 FailureCarrying(task_out[i].value,
                                 <<"API request failed: ">> \o TimeoutException.msg)

\* C10 witness: the second POST of a request timed out with three attempts
\* left, and the request ended with two POSTs issued.
C10_Witness ==
    /\ Len(requests) = 1
    /\ last_resp[1] = "POST timeout"
    /\ pc[1] = "done"
    /\ posts[1] = 2
    /\ attempt[1] + 1 = max_retries - 3
    /\ task_out[1].kind = "result"
    /\ ~task_out[1].value.success


RetryableFailure(i) ==
    last_resp[i] \in {"POST http_error", "POST network_error",
                      "GET http_error", "GET network_error"}

UnderlyingError(i) ==
    IF last_resp[i] \in {"POST http_error", "GET http_error"}
    THEN HTTPStatusError ELSE RequestError

BackoffSleeps(k) == { Slept(_calculate_backoff(k, draw)) : draw \in Draws }

\* C11: a request has issued at most 5 POSTs, one per attempt.  After an HTTP
\* error (not 429) or a network failure on one of the first four attempts the
\* executor is in the backoff sleep of that attempt, and one sleep has been
\* made after every attempt so far; after such a failure on the fifth attempt
\* the executor has raised that failure's error without sleeping again.  A
\* POST answered with a finished payload ends the executor, which returns
\* that payload, whatever the attempt.
C11_RetryThenRaise ==
    \A i \in Tasks :
        /\ posts[i] <= max_retries
        /\ pc[i] # "waiting" => posts[i] = attempt[i] + 1
        /\ RetryableFailure(i) /\ attempt[i] < max_retries - 1 =>
             /\ pc[i] = "backoff"
             /\ sleeping[i] \in BackoffSleeps(attempt[i])
             /\ retry_sleeps[i] = attempt[i] + 1
        /\ RetryableFailure(i) /\ attempt[i] = max_retries - 1 =>
             /\ pc[i] = "done"
             /\ exec_exc[i] = UnderlyingError(i)
             /\ sleeping[i] = None
             /\ retry_sleeps[i] = max_retries - 1
             /\ posts[i] = max_retries
        /\ last_resp[i] = "POST terminal" =>
             /\ pc[i] = "done"
             /\ exec_exc[i] = None
             /\ exec_ret[i] \in TerminalData(requests[i].prompt)
             /\ task_out[i].kind = "result" =>
                  task_out[i].value =
                      generate_commentary(requests[i], Returned(exec_ret[i]))

\* C11 witness: the fifth POST of a request failed on the network after four
\* failed attempts with a sleep after each, and the executor raised the
\* network error.
C11_Witness ==
    /\ Len(requests) = 1
    /\ last_resp[1] = "POST network_error"
    /\ posts[1] = max_retries
    /\ retry_sleeps[1] = max_retries - 1
    /\ pc[1] = "done"
    /\ exec_exc[1] = RequestError


\* C12: after an HTTP 429 response the executor is asleep before its next
\* POST (or, the attempts being used up, has ended after that sleep); one
\* sleep has been made after every attempt; and the sleep lasts what the
\* Retry-After header says when the response has one, else what the Backoff
\* Calculator gives for the current attempt.
C12_RateLimitSleeps ==
    \A i \in Tasks :
        last_resp[i] = "POST 429" =>
            /\ \/ pc[i] = "backoff"
               \/ pc[i] = "done" /\ attempt[i] = max_retries - 1
            /\ retry_sleeps[i] = attempt[i] + 1
            /\ pc[i] = "backoff" =>
                 IF retry_after[i].present
                 THEN sleeping[i] = Slept(float(retry_after[i].text))
                 ELSE sleeping[i] \in BackoffSleeps(attempt[i])

RetriedAnswers ==
    {"POST 429", "POST http_error", "POST network_error",
     "GET http_error", "GET network_error"}

\* C13: a request never issues more than 5 POSTs, whatever mix of 429, HTTP
\* errors and network errors answers them; when the fifth POST has been
\* answered by one of these the request sleeps at most once more and ends
\* with its executor raising, as a failed item.
C13_RateLimitedSharesBudget ==
    \A i \in Tasks :
        /\ posts[i] <= max_retries
        /\ posts[i] = max_retries /\ last_resp[i] \in RetriedAnswers =>
             /\ pc[i] \in {"backoff", "done"}
             /\ pc[i] = "backoff" => last_resp[i] = "POST 429"
             /\ pc[i] = "done" =>
                  /\ exec_exc[i] # None
                  /\ task_out[i].kind = "result" =>
                       FailureCarrying(task_out[i].value,
                                       <<"API request failed: ">> \o exec_exc[i].msg)

\* C13 witness: every one of the five POSTs of a request was answered 429, and
\* the request ended as a failed item after five POSTs.
C13_Witness ==
    /\ Len(requests) = 1
    /\ last_resp[1] = "POST 429"
    /\ posts[1] = max_retries
    /\ retry_sleeps[1] = max_retries
    /\ pc[1] = "done"
    /\ exec_exc[1] = MaxRetriesExceeded
    /\ task_out[1].kind = "result"
    /\ ~task_out[1].value.success

\* C14: a submission answered queued / in_progress / running is followed by
\* status polls; a poll answered with a status that is not terminal is
\* followed by one sleep of the poll interval and another poll; the first
\* poll answered with a terminal status ends the executor, which returns that
\* payload; so the polls made are one more than the sleeps between them.
C14_PollUntilTerminal ==
    \A i \in Tasks :
        /\ last_resp[i] = "POST queued" => pc[i] = "get" /\ polls[i] = 1
        /\ pc[i] = "get" => poll_sleeps[i] = polls[i] - 1
        /\ last_resp[i] = "GET running" =>
             /\ pc[i] = "poll_sleep"
             /\ sleeping[i] = Slept(poll_interval)
             /\ poll_sleeps[i] = polls[i]
        /\ last_resp[i] \in {"GET completed", "GET failed"} =>
             /\ pc[i] = "done"
             /\ exec_exc[i] = None
             /\ exec_ret[i] \in TerminalData(requests[i].prompt)
             /\ GetLabel(exec_ret[i].status) = last_resp[i]
             /\ poll_sleeps[i] = polls[i] - 1

\* C14 witness: the job was running at two polls and completed at the third;
\* the executor returned the completed payload after two sleeps.
C14_Witness ==
    /\ Len(requests) = 1
    /\ posts[1] = 1
    /\ last_resp[1] = "GET completed"
    /\ polls[1] = 3
    /\ poll_sleeps[1] = 2
    /\ exec_ret[1] = CitedData(requests[1].prompt)
    /\ task_out[1].kind = "result"
    /\ task_out[1].value.success

\* C15: when the poller finds the elapsed time over the maximum wait it
\* issues no status GET: the executor has ended by raising the polling
\* timeout, no POST followed, and the item's result is the failure with the
\* timeout's message.
C15_PollingTimeoutIsFatal ==
    \A i \in Tasks :
        /\ elapsed_over[i] =>
             /\ pc[i] = "done"
             /\ last_resp[i] = "poll max_wait"
        /\ last_resp[i] = "poll max_wait" =>
             /\ pc[i] = "done"
             /\ exec_exc[i] = PollingTimeout
             /\ posts[i] = attempt[i] + 1
             /\ task_out[i].kind = "result" =>
                  FailureCarrying(task_out[i].value,
                                  <<"API request failed: ">> \o PollingTimeout.msg)

\* C15 witness: a job that was still running after two polls ran over the
\* maximum wait, and the request ended with one POST and two GETs.
C15_Witness ==
    /\ Len(requests) = 1
    /\ last_resp[1] = "poll max_wait"
    /\ elapsed_over[1]
    /\ posts[1] = 1
    /\ gets[1] = 2
    /\ pc[1] = "done"
    /\ exec_exc[1] = PollingTimeout


IsCall(fn) == call # None /\ call.fn = fn

\* C16: the timeout of a request depends on the reasoning level alone: 120 s
\* for low, 300 s for medium, 600 s for high and 300 s for every other level,
\* whatever the model; the POST is given this timeout and the poller this
\* maximum wait.
C16_TimeoutFromLevel ==
    IsCall("_make_request") =>
        LET level == call.args.thinking_level
            expected == IF level = "low" THEN 120000
                        ELSE IF level = "high" THEN 600000
                        ELSE 300000
        IN  /\ call.ret.post_timeout = expected
            /\ call.ret.max_wait = expected

\* C16 witness: a request at level xhigh, which the table does not hold, has
\* 300 s as its POST timeout and as its maximum wait.
C16_Witness ==
    /\ IsCall("_make_request")
    /\ call.args.thinking_level = "xhigh"
    /\ call.ret.post_timeout = 300000
    /\ call.ret.max_wait = 300000

\* C17 as stated: for every attempt k the delay lies between
\* base*2^k*(1-jitter) and base*2^k*(1+jitter), both clamped to max_backoff,
\* so it is never negative and never above max_backoff.
C17_BackoffWithinClampedBounds ==
    IsCall("_calculate_backoff") =>
        LET raw == initial_backoff * (2 ^ call.args.attempt)
            lo == Min((raw * (100 - jitter_percent)) \div 100, max_backoff)
            hi == Min((raw * (100 + jitter_percent)) \div 100, max_backoff)
        IN  /\ lo <= call.ret /\ call.ret <= hi
            /\ 0 <= call.ret /\ call.ret <= max_backoff

\* C17 as amended: for every attempt k the delay lies between c*(1-jitter)
\* and c*(1+jitter), where c is base*2^k capped at max_backoff: it is never
\* negative and never above max_backoff*(1+jitter); while
\* base*2^k*(1+jitter) is at most max_backoff it is within the bounds as
\* stated and not above max_backoff.
C17_BackoffWithinJitterOfCapped ==
    IsCall("_calculate_backoff") =>
        LET raw == initial_backoff * (2 ^ call.args.attempt)
            capped == Min(raw, max_backoff)
        IN  /\ (capped * (100 - jitter_percent)) \div 100 <= call.ret
            /\ call.ret <= (capped * (100 + jitter_percent)) \div 100
            /\ 0 <= call.ret
            /\ call.ret <= (max_backoff * (100 + jitter_percent)) \div 100
            /\ (raw * (100 + jitter_percent)) \div 100 <= max_backoff =>
                 /\ (raw * (100 - jitter_percent)) \div 100 <= call.ret
                 /\ call.ret <= (raw * (100 + jitter_percent)) \div 100
                 /\ call.ret <= max_backoff

\* C17 witness: at attempt 6 (64 s before the cap) with the largest draw the
\* delay is 72 s, the cap of 60 s plus its jitter.
C17_Witness ==
    /\ IsCall("_calculate_backoff")
    /\ call.args.attempt = 6
    /\ call.args.draw = 1000
    /\ call.ret = 72000
    /\ call.ret > max_backoff

C19_PayloadEffortSupported ==
    IsCall("_make_request") => call.ret.effort \in Supported(call.args.model)

\* C20: in a successful result the citation urls are pairwise distinct and
\* none is empty; every url that is not empty, of a url_citation annotation,
\* is in the list exactly once; and two links of the text to the same url are
\* replaced by the same thing, the same footnote marker [N] with N a place in
\* the citation list when the url is cited.
C20_CitationsUnique ==
    IsCall("_parse_response") /\ call.ret.success =>
        LET citations == call.ret.citations
            annotations == call.args.annotations
            text == call.args.content
            cleaned == call.linked
        IN  /\ \A j, k \in 1..Len(citations) :
                 /\ citations[j] # << >>
                 /\ j # k => citations[j] # citations[k]
            /\ \A a \in 1..Len(annotations) :
                 annotations[a].type = "url_citation" /\ annotations[a].url # << >> =>
                     Cardinality({ j \in 1..Len(citations) :
                                     citations[j] = annotations[a].url }) = 1
            /\ Len(cleaned) = Len(text)
            /\ \A j, k \in 1..Len(text) :
                 (text[j].piece = "link" /\ text[k].piece = "link"
                     /\ text[j].url = text[k].url) =>
                     /\ cleaned[j] = cleaned[k]
                     /\ (\E n \in 1..Len(citations) : citations[n] = text[j].url) =>
                          /\ cleaned[j].piece = "[N]"
                          /\ cleaned[j].num \in 1..Len(citations)

\* C20 witness: the annotations cite one url twice and another once, out of
\* order, and the text links the first url twice: two citations, in the
\* order of appearance, and both links became the footnote marker [1].
C20_Witness ==
    /\ IsCall("_parse_response")
    /\ call.args.annotations = << Annotation("url_citation", UrlB, 1),
                                  Annotation("url_citation", UrlX, 0),
                                  Annotation("url_citation", UrlX, 1) >>
    /\ call.ret.success
    /\ call.ret.citations = <<UrlX, UrlB>>
    /\ Len(call.ret.commentary) = 3
    /\ call.ret.commentary[2] = Footnote(1)
    /\ call.ret.commentary[3] = Footnote(1)


\* The place in the payload of the annotation that cites url first in the
\* text: the least start_index, and among those the first of the payload.
FirstAppearance(annotations, url) ==
    CHOOSE a \in 1..Len(annotations) :
        /\ IsUrlCitation(annotations[a]) /\ annotations[a].url = url
        /\ \A b \in 1..Len(annotations) :
             (IsUrlCitation(annotations[b]) /\ annotations[b].url = url) =>
                 \/ annotations[a].start_index < annotations[b].start_index
                 \/ /\ annotations[a].start_index = annotations[b].start_index
                    /\ a <= b

\* C21: the citations are in the order in which their urls first appear in
\* the text (start_index ascending, payload order among equals), not in the
\* order of the payload; the footnote number of the i-th citation is i, so
\* the dict url_to_footnote maps the cited urls one to one onto 1..n.
C21_CitationsInOrderOfAppearance ==
    IsCall("_parse_response") /\ call.ret.success =>
        LET citations == call.ret.citations
            annotations == call.args.annotations
            footnotes == call.url_to_footnote
            n == Len(citations)
        IN  /\ \A i, j \in 1..n :
                 i < j =>
                     LET a == FirstAppearance(annotations, citations[i])
                         b == FirstAppearance(annotations, citations[j])
                     IN  \/ annotations[a].start_index < annotations[b].start_index
                         \/ /\ annotations[a].start_index = annotations[b].start_index
                            /\ a < b
            /\ DOMAIN footnotes = { citations[i] : i \in 1..n }
            /\ \A i \in 1..n : footnotes[citations[i]] = i
            /\ { footnotes[u] : u \in DOMAIN footnotes } = 1..n

\* C21 witness: the payload cites b.com first, but a.com appears first in
\* the text: a.com is citation 1 and b.com citation 2.
C21_Witness ==
    /\ IsCall("_parse_response")
    /\ call.args.annotations = << Annotation("url_citation", UrlB, 1),
                                  Annotation("file_citation", UrlB, 0),
                                  Annotation("url_citation", UrlX, 0) >>
    /\ call.ret.success
    /\ call.ret.citations = <<UrlX, UrlB>>
    /\ call.url_to_footnote[UrlX] = 1
    /\ call.url_to_footnote[UrlB] = 2


\* The text "Apple rose ([1](https://a.com/x?utm=1))".
AppleRose ==
    << Answer(Descriptor(1).prompt), Space, Open, Link("1", UrlXTracked), Close >>

\* In a text, a footnote marker that stands alone in parentheses.
HasParenthesisedMarker(text) ==
    \E j \in 1..(Len(text) - 2) :
        text[j] = Open /\ text[j + 1].piece = "[N]" /\ text[j + 2] = Close

OnlyBlanksAndUrls(text) ==
    \A j \in 1..Len(text) :
        text[j] = Space \/ text[j].piece = "(https://a.com/x)"

\* C23: the interpreter returns a result for every payload, one that has not
\* the expected shape included; a successful result has a text that is not
\* empty; a payload without text, or whose text is empty after the
\* cleaning, gives a failure; and every failure has success false, an empty
\* commentary, no citations and a message.
C23_NoSuccessWithEmptyText ==
    IsCall("_parse_response") =>
        LET result == call.ret
            text == call.args.content
        IN  /\ IsCommentaryResult(result)
            /\ result.success =>
                 /\ result.commentary # << >>
                 /\ \E j \in 1..Len(result.commentary) :
                        result.commentary[j] # Space
                 /\ result.error_message = << >>
            /\ ~result.success =>
                 /\ result.commentary = << >>
                 /\ result.citations = << >>
                 /\ result.error_message # << >>
            /\ (text = << >> \/ OnlyBlanksAndUrls(text)) => ~result.success
            /\ (call.args.well_formed /\ text = << >>) =>
                 result.error_message[1] = "No content in response: "
            /\ (call.args.well_formed /\ text # << >> /\ OnlyBlanksAndUrls(text)) =>
                 result.error_message = <<"Empty commentary in response">>
            /\ ~call.args.well_formed =>
                 /\ ~result.success
                 /\ result.error_message[1] = "Failed to parse response: "

\* C23 witness: a text of a bare URL in two pairs of parentheses, with a
\* citation, is empty after the cleaning: the result is the failure "Empty
\* commentary in response", without the citation.
C23_Witness ==
    /\ IsCall("_parse_response")
    /\ call.args.well_formed
    /\ call.args.content =
           << Space, Open, BareUrlPiece(Descriptor(1).prompt), Close, Space >>
    /\ call.args.annotations = <<Annotation("url_citation", UrlX, 0)>>
    /\ ~call.ret.success
    /\ call.ret.commentary = << >>
    /\ call.ret.citations = << >>
    /\ call.ret.error_message = <<"Empty commentary in response">>


\* C24: for a caller that requires citations, a result that was interpreted
\* as a success and has no citation is returned as a failure whose message
\* says that no citations were found, and no success has an empty citation
\* list; for a caller that does not require them, the result stays a success.
C24_CitationsRequiredByCaller ==
    IsCall("generate_commentary") /\ call.parsed.success =>
        /\ (call.args.require_citations /\ call.parsed.citations = << >>) =>
             /\ ~call.ret.success
             /\ call.ret.error_message =
                    <<"No citations found in response (citations are required)">>
        /\ (call.args.require_citations /\ call.ret.success) =>
             call.ret.citations # << >>
        /\ ~call.args.require_citations => call.ret = call.parsed


\* C25: in a batch that is not cancelled and has a progress callback, the
\* k-th invocation of the callback is made when the k-th task ends, with the
\* count k and the total N, whatever the order in which the tasks end: the
\* counts are 1, 2, ... without a gap or a repeat, no task is reported twice,
\* and when the batch has returned there were N invocations, one per
\* request.
C25_ProgressCountsEveryRequestOnce ==
    (has_callback /\ ~cancel_event) =>
        /\ Len(progress) = Len(finish_order)
        /\ Len(progress) <= Total
        /\ \A k \in 1..Len(progress) :
             /\ progress[k][2] = k
             /\ progress[k][3] = Total
             /\ progress[k][1] = requests[finish_order[k]].ticker
        /\ \A j, k \in 1..Len(finish_order) :
             j # k => finish_order[j] # finish_order[k]
        /\ batch = "returned" =>
             /\ Len(progress) = Total
             /\ { finish_order[k] : k \in 1..Len(finish_order) } = Tasks

\* C25 witness: a batch of two has returned after the second request ended
\* first: the callback was called for request 2 with (1, 2), then for
\* request 1 with (2, 2).
C25_Witness ==
    /\ has_callback
    /\ ~cancel_event
    /\ batch = "returned"
    /\ Len(requests) = 2
    /\ finish_order = <<2, 1>>
    /\ progress = << <<requests[2].ticker, 1, 2>>, <<requests[1].ticker, 2, 2>> >>


\* C26: the progress the UI receives over a run of C commentary requests
\* followed by A attribution requests is one running total: the k-th event
\* carries (k, C + A), so the count rises by one from 1 to C + A, is not
\* reset where the attribution phase begins and is never above C + A; the
\* total of the phase is not reported; and a callback made for an overall
\* total of 0 reports nothing.
C26_OverallProgressIsOneTotal ==
    /\ app.phase # "idle" =>
         LET C == app.commentary_total
             A == app.attribution_total
             events == app.events
         IN  /\ \A k \in 1..Len(events) :
                  /\ events[k][2] = k
                  /\ events[k][3] = C + A
                  /\ events[k][2] <= C + A
             /\ app.phase = "commentary" => Len(events) = app.completed
             /\ app.phase = "attribution" => Len(events) = C + app.completed
             /\ app.phase = "done" => Len(events) = C + A
    /\ IsCall("_make_overall_progress_callback") =>
         /\ call.args.overall_total = 0 => call.ret = << >>
         /\ call.args.overall_total > 0 =>
              /\ Len(call.ret) = 1
              /\ call.ret[1][3] = call.args.overall_total
              /\ call.ret[1][2] <= call.args.overall_total
              /\ call.ret[1][2] >= 0

\* C26 witness: a run of two commentary requests and one attribution request
\* has ended, as in the test: the UI received (1, 3), (2, 3), (3, 3), the last
\* one from the attribution phase, whose own count was 1 of 1.
C26_Witness ==
    /\ app.phase = "done"
    /\ app.commentary_total = 2
    /\ app.attribution_total = 1
    /\ app.events = << <<"AAPL", 1, 3>>, <<"AAPL", 2, 3>>, <<"PORT1", 3, 3>> >>


\* The requests of a routing have pairwise distinct (portcode, ticker) pairs.
DistinctPairs(routed) ==
    \A i, j \in 1..Len(routed) :
        i # j => ~(routed[i].portcode = routed[j].portcode
                     /\ routed[i].ticker = routed[j].ticker)

\* The requests of a routing have pairwise distinct keys "portcode|ticker".
DistinctKeys(routed) ==
    \A i, j \in 1..Len(routed) :
        i # j => ErrorKey(routed[i].portcode, routed[i].ticker)
                     # ErrorKey(routed[j].portcode, routed[j].ticker)

\* The error map holds the key of request i exactly when result i is a
\* failure, with the message of that result, and holds no other key.
ErrorsMatchFailures(routed, results, errors) ==
    /\ \A i \in 1..Len(routed) :
         LET key == ErrorKey(routed[i].portcode, routed[i].ticker)
         IN  /\ key \in DOMAIN errors <=> ~results[i].success
             /\ ~results[i].success => errors[key] = <<results[i].error_message>>
    /\ DOMAIN errors \subseteq
           { ErrorKey(routed[i].portcode, routed[i].ticker) : i \in 1..Len(routed) }

\* The result of request i is under its portcode and ticker.
RoutedByPosition(routed, results, commentary_results) ==
    \A i \in 1..Len(routed) :
        /\ routed[i].portcode \in DOMAIN commentary_results
        /\ routed[i].ticker \in DOMAIN commentary_results[routed[i].portcode]
        /\ commentary_results[routed[i].portcode][routed[i].ticker] = results[i]

\* C27 as stated: for requests with pairwise distinct (portcode, ticker)
\* pairs, commentary_results[portcode_i][ticker_i] is results[i] for every i,
\* and the error map holds the key "portcode_i|ticker_i" exactly for the i
\* whose result is a failure, with that result's message.
C27_RoutedByRequestPosition ==
    (IsCall("_organize_commentary_results_by_request")
        /\ DistinctPairs(call.args.requests)) =>
            /\ RoutedByPosition(call.args.requests, call.args.results,
                                call.ret.commentary_results)
            /\ ErrorsMatchFailures(call.args.requests, call.args.results,
                                   call.ret.errors)

\* C27 as amended: for requests with pairwise distinct (portcode, ticker)
\* pairs, commentary_results[portcode_i][ticker_i] is results[i] for every i;
\* when their keys "portcode_i|ticker_i" are pairwise distinct too, the error
\* map holds the key of request i exactly for the i whose result is a
\* failure, with that result's message as its one entry.
C27_RoutedByPositionErrorsByKey ==
    (IsCall("_organize_commentary_results_by_request")
        /\ DistinctPairs(call.args.requests)) =>
            /\ RoutedByPosition(call.args.requests, call.args.results,
                                call.ret.commentary_results)
            /\ DistinctKeys(call.args.requests) =>
                 ErrorsMatchFailures(call.args.requests, call.args.results,
                                     call.ret.errors)

\* C27 witness: two portfolios hold AAPL, the first result is a success and
\* the second a failure: each portfolio has its own result and the error map
\* has the one key "ONE|AAPL".
C27_Witness ==
    /\ IsCall("_organize_commentary_results_by_request")
    /\ Len(call.args.requests) = 2
    /\ call.args.requests[1] = [portcode |-> <<"XYZ">>, ticker |-> <<"AAPL">>]
    /\ call.args.requests[2] = [portcode |-> <<"ONE">>, ticker |-> <<"AAPL">>]
    /\ call.args.results[1].success
    /\ ~call.args.results[2].success
    /\ call.ret.commentary_results[<<"XYZ">>][<<"AAPL">>] = call.args.results[1]
    /\ call.ret.commentary_results[<<"ONE">>][<<"AAPL">>] = call.args.results[2]
    /\ DOMAIN call.ret.errors = { <<"ONE", "|", "AAPL">> }
    /\ call.ret.errors[<<"ONE", "|", "AAPL">>] = << <<"error of request", 2>> >>


\* The application has just loaded its key or saved the settings.
AfterKeyOperation == app.last_op \in {"load_api_key", "open_settings"}

C29_OneRowPerSelectedSecurity ==
    IsCall("merge_results") =>
        LET selected == call.args.ranked_securities
            results == call.args.commentary_results
            rows == call.ret
        IN  /\ Len(rows) = Len(selected)
            /\ \A j \in 1..Len(selected) :
                 LET ticker == selected[j].security.ticker
                 IN  /\ rows[j].ticker = ticker
                     /\ rows[j].ranked = selected[j]
                     /\ ticker \notin DOMAIN results =>
                          /\ rows[j].commentary = <<"ERROR: No commentary generated">>
                          /\ rows[j].sources = << >>
                          /\ rows[j].is_error
                     /\ (ticker \in DOMAIN results /\ ~results[ticker].success) =>
                          /\ rows[j].commentary =
                                 <<"ERROR: ">> \o results[ticker].error_message
                          /\ rows[j].sources = << >>
                          /\ rows[j].is_error
                     /\ (ticker \in DOMAIN results /\ results[ticker].success) =>
                          /\ rows[j].commentary = results[ticker].commentary
                          /\ ~rows[j].is_error
                          /\ Len(rows[j].sources) = Len(results[ticker].citations)
                          /\ \A i \in 1..Len(rows[j].sources) :
                               rows[j].sources[i] =
                                   << "[", i, "] ", results[ticker].citations[i] >>

\* C29 witness: of two selected securities the first has a success with two
\* citations and the second has no result: two rows, the first with the
\* sources [1] and [2], the second "ERROR: No commentary generated".
C29_Witness ==
    /\ IsCall("merge_results")
    /\ Len(call.args.ranked_securities) = 2
    /\ call.args.ranked_securities[1].security.ticker = "MSFT"
    /\ call.args.ranked_securities[2].security.ticker = "AAPL"
    /\ DOMAIN call.args.commentary_results = {"MSFT"}
    /\ Len(call.ret) = 2
    /\ call.ret[1].sources = << <<"[", 1, "] ", UrlX>>, <<"[", 2, "] ", UrlB>> >>
    /\ ~call.ret[1].is_error
    /\ call.ret[2].commentary = <<"ERROR: No commentary generated">>
    /\ call.ret[2].is_error


\* How often a security occurs in a list of securities.
Occurrences(list, sec) == Cardinality({ i \in 1..Len(list) : list[i] = sec })

\* A list from select_top_bottom: at most n entries, all of them candidates,
\* ranked 1..k, of the given type, each as often as in the input at most, all
\* candidates when there are at most n, and no candidate left out that
\* should stand before one that is in.
SelectedFrom(ranked, securities, n, IsCandidate(_), Before(_, _), type) ==
    LET picked == [i \in 1..Len(ranked) |-> ranked[i].security]
        candidates == SelectSeq(securities, IsCandidate)
    IN  /\ Len(ranked) = Min(n, Len(candidates))
        /\ \A i \in 1..Len(ranked) :
             /\ IsCandidate(picked[i])
             /\ ranked[i].rank = i
             /\ ranked[i].security_type = type
             /\ Occurrences(picked, picked[i]) <= Occurrences(securities, picked[i])
        /\ \A i, j \in 1..Len(ranked) : i < j => ~Before(picked[j], picked[i])
        /\ \A i \in 1..Len(ranked), c \in 1..Len(candidates) :
             Before(candidates[c], picked[i]) =>
                 Occurrences(picked, candidates[c])
                     = Occurrences(securities, candidates[c])

\* a stands before b among the contributors: more contribution, or the same
\* and more weight.
ContributorBefore(a, b) ==
    \/ a.contribution_to_return > b.contribution_to_return
    \/ /\ a.contribution_to_return = b.contribution_to_return
       /\ a.port_ending_weight > b.port_ending_weight

\* a stands before b among the detractors: less contribution, or the same
\* and more weight.
DetractorBefore(a, b) ==
    \/ a.contribution_to_return < b.contribution_to_return
    \/ /\ a.contribution_to_return = b.contribution_to_return
       /\ a.port_ending_weight > b.port_ending_weight

\* C30: select_top_bottom(securities, n) returns at most n contributors, all
\* with a contribution above 0, by contribution descending and then weight
\* descending, and at most n detractors, all with a contribution below 0, by
\* contribution ascending and then weight descending; the ranks of each list
\* are 1..k; a security of contribution 0 is in neither list; and with fewer
\* than n candidates all of them are returned.
C30_TopBottomSelection ==
    IsCall("select_top_bottom") =>
        LET securities == call.args.securities
            n == call.args.n
            contributors == call.ret.contributors
            detractors == call.ret.detractors
        IN  /\ Len(contributors) <= n
            /\ Len(detractors) <= n
            /\ SelectedFrom(contributors, securities, n, IsPositive,
                            ContributorBefore, "Contributor")
            /\ SelectedFrom(detractors, securities, n, IsNegative,
                            DetractorBefore, "Detractor")
            /\ \A i \in 1..Len(contributors) :
                 contributors[i].security.contribution_to_return > 0
            /\ \A i \in 1..Len(detractors) :
                 detractors[i].security.contribution_to_return < 0

\* C30 witness: of three gains of which two are equal, with n = 2, the two
\* contributors are the largest gain and, of the
\* two equal ones, the one of more weight.
C30_Witness ==
    /\ IsCall("select_top_bottom")
    /\ call.args.n = 2
    /\ call.args.securities = << SecurityRow("A", 1, 1), SecurityRow("A", 2, 1),
                                 SecurityRow("A", 1, 2) >>
    /\ Len(call.ret.contributors) = 2
    /\ call.ret.contributors[1] =
           RankedSecurity(SecurityRow("A", 1, 2), 1, "Contributor")
    /\ call.ret.contributors[2] =
           RankedSecurity(SecurityRow("A", 2, 1), 2, "Contributor")
    /\ call.ret.detractors = << >>


\* C31: a batch that has begun, of N requests under a limit L >= 1 (N > L
\* included), whose Request Executor calls all finish, admits every request
\* and returns, with no batch-level timeout ending it otherwise; from its
\* return on the completed count is N and every slot of the gate is free.
C31_BatchReturnsWithAllAdmitted ==
    (batch = "running") ~>
        (/\ batch = "returned"
         /\ \A i \in Tasks : pc[i] # "waiting"
         /\ completed = Total
         /\ semaphore = limit
         /\ holding = {})

\* C31 witness: two requests under a limit of one, the first of which met a
\* fault, have both been admitted and the batch has returned with the count
\* at two and the slot free.
C31_Witness ==
    /\ batch = "returned"
    /\ Total = 2
    /\ limit = 1
    /\ faults_left < MaxLiveFaults
    /\ finish_order = <<1, 2>>
    /\ completed = 2
    /\ semaphore = 1
    /\ holding = {}


\* The payload that _make_request returned for task i has been handed to
\* _parse_response.
Interpreted(i) == exec_ret[i] # None

\* C32: for each item _make_request is called once and _parse_response at
\* most once: a task never comes back to the gate, the step in which the
\* payload is interpreted ends the task whatever the interpreter makes of it
\* (a parse failure and a missing citation included), and from then on the
\* task makes no POST and no GET and its result does not change.
C32_TerminalResponseNeverResubmitted ==
    [][\A i \in Tasks :
          /\ pc[i] # "waiting" => pc'[i] # "waiting"
          /\ (Interpreted(i) \/ pc[i] = "done") =>
                 /\ pc[i] = "done"
                 /\ posts[i] >= 1
                 /\ pc'[i] = "done"
                 /\ posts'[i] = posts[i]
                 /\ gets'[i] = gets[i]
                 /\ exec_ret'[i] = exec_ret[i]
                 /\ task_out'[i] = task_out[i]
          /\ exec_ret'[i] # exec_ret[i] =>
                 /\ pc'[i] = "done"
                 /\ posts'[i] = posts[i]
                 /\ gets'[i] = gets[i]]_vars

\* C32 witness: the first request got a text without citation at its first
\* POST and ended as a failure; the batch went on to its end and the request
\* still has one POST.
C32_Witness ==
    /\ batch = "returned"
    /\ Total = 2
    /\ Interpreted(1)
    /\ posts[1] = 1
    /\ gets[1] = 0
    /\ task_out[1].kind = "result"
    /\ ~task_out[1].value.success
    /\ task_out[1].value.error_message =
           <<"No citations found in response (citations are required)">>


\* The POST of task i was once answered with a queued job: the poller has
\* issued a status GET for it.
Accepted(i) == gets[i] >= 1

\* C33: once a submission has been accepted (the POST returned queued with
\* a job id), the Request Executor issues no further POST for the request,
\* whatever happens while it polls (an HTTP error status, a network error, a
\* polling timeout).
C33_NoPostAfterAcceptance ==
    [][\A i \in Tasks : Accepted(i) => posts'[i] = posts[i]]_vars


\* The statuses that end the polling: those of a finished job and those of
\* a job that came to nothing.
EndsPolling(status) ==
    \/ status \in {"completed", "succeeded"}
    \/ status \in {"failed", "cancelled", "expired"}

\* m events of a poller that sleeps once between two GETs.
GetsAndSleeps(m) == [j \in 1..m |-> IF j % 2 = 1 THEN "GET" ELSE "sleep"]

\* C34: the poller returns at the first status GET answered with completed /
\* succeeded or failed / cancelled / expired, with that payload as it is and
\* no GET or sleep after it; a GET answered with any other status, or with
\* no status, is followed by one sleep of the poll interval and then by the
\* next iteration (which issues the next GET, or raises when the clock is
\* over the maximum wait).
C34_PollingStopsAtFirstTerminal ==
    IsCall("_poll_response_status") =>
        LET answers == call.args.answers
            ret == call.ret
            n == Len(answers)
            Stops(k) ==
                \/ answers[k].over
                \/ /\ "status" \in DOMAIN answers[k].data
                   /\ EndsPolling(answers[k].data.status)
            stops == { k \in 1..n : Stops(k) }
            first == CHOOSE k \in stops : \A j \in stops : k <= j
        IN  IF stops = {}
            THEN /\ ret.kind = "pending"
                 /\ ret.trace = GetsAndSleeps(2 * n)
            ELSE IF answers[first].over
            THEN /\ ret.kind = "raise"
                 /\ ret.trace = GetsAndSleeps(2 * (first - 1))
            ELSE /\ ret.kind = "return"
                 /\ ret.data = answers[first].data
                 /\ ret.trace = GetsAndSleeps(2 * first - 1)

\* C34 witness: a GET answered without a status and a GET answered expired:
\* GET, one sleep, GET, and the expired payload is returned.
C34_Witness ==
    /\ IsCall("_poll_response_status")
    /\ call.args.answers =
           << [over |-> FALSE, data |-> [id |-> "resp_1"]],
              [over |-> FALSE, data |-> [id |-> "resp_1", status |-> "expired"]] >>
    /\ call.ret.kind = "return"
    /\ call.ret.data = [id |-> "resp_1", status |-> "expired"]
    /\ call.ret.trace = <<"GET", "sleep", "GET">>

\* The step is a drain of the two queues.
DrainStep == app'.tick.drains = app.tick.drains + 1

HasOutcomeCallback(callbacks) ==
    \E k \in DOMAIN callbacks : callbacks[k].name \in OutcomeCallbacks

HasEnableCallback(callbacks) ==
    \E k \in DOMAIN callbacks : callbacks[k].name = "run_btn.configure"

\* C35: one drain tick takes every queued progress event and shows only the
\* most recent one, as completed / total * 100, or 0 when total is 0 (an
\* outcome callback of the same tick then resets the bar); it takes and
\* calls every queued UI callback in the order they were queued, whether or
\* not some of them raise; and it schedules itself again exactly once.
C35_DrainTick ==
    [][DrainStep =>
        LET events == app._progress_queue
            latest == events[Len(events)]
            callbacks == app._ui_callback_queue
        IN  /\ app'._progress_queue = << >>
            /\ app'.tick.taken = events
            /\ app'.progress_var =
                   IF HasOutcomeCallback(callbacks) THEN [num |-> 0, den |-> 1]
                   ELSE IF events = << >> THEN app.progress_var
                   ELSE IF latest[3] > 0 THEN [num |-> latest[2] * 100, den |-> latest[3]]
                   ELSE [num |-> 0, den |-> 1]
            /\ app'._ui_callback_queue = << >>
            /\ app'.tick.called = callbacks
            /\ app'.run_btn = IF HasEnableCallback(callbacks) THEN "normal" ELSE app.run_btn
            /\ app'.tick.after_calls = 1
            /\ app'.after_pending = app.after_pending
            /\ app'.after_pending = 1]_vars

C35_Witness ==
    /\ app.tick.drains = 1
    /\ app.tick.taken = << <<"AAPL", 1, 2>>, <<"AAPL", 2, 2>> >>
    /\ app.tick.called = << OutcomeCallback("_on_generation_complete", 1),
                            EnableCallback(1) >>
    /\ app.tick.raises = <<TRUE, FALSE>>
    /\ app.tick.after_calls = 1
    /\ app._progress_queue = << >>
    /\ app._ui_callback_queue = << >>
    /\ app.after_pending = 1

InTry(w) ==
    app.worker[w].pc \in {"start", "event", "check", "generate", "commentary", "attribution"}

\* C36: every generation run enqueues exactly one outcome callback
\* (completed, cancelled or error) followed by the callback that re-enables
\* the run button, and on every exit path clears is_running, the loop
\* reference and the cancel event; a run whose cancel signal was set when its
\* last batch returned ends cancelled, never completed.
C36_RunOutcome ==
    /\ [](\A w \in Workers :
            LET run == app.worker[w]
            IN  /\ run.pc = "none" \/ InTry(w) =>
                       run.outcome = "none" /\ run.enqueued = << >>
                /\ run.pc \in {"finally", "finally enable"} =>
                       /\ run.outcome \in OutcomeCallbacks
                       /\ run.enqueued = <<OutcomeCallback(run.outcome, w)>>
                /\ run.pc \in {"finally loop", "finally event", "done"} =>
                       /\ run.outcome \in OutcomeCallbacks
                       /\ run.enqueued = <<OutcomeCallback(run.outcome, w), EnableCallback(w)>>
                /\ run.signalled /\ run.outcome # "none" =>
                       run.outcome = "_on_generation_cancelled")
    /\ [][\A w \in Workers :
            /\ app.worker[w].pc = "finally" /\ app'.worker[w].pc # "finally" =>
                   ~app'.is_running
            /\ app.worker[w].pc = "finally loop" /\ app'.worker[w].pc # "finally loop" =>
                   app'._generation_loop = NoRef
            /\ app.worker[w].pc # "done" /\ app'.worker[w].pc = "done" =>
                   app.worker[w].pc = "finally event" /\ app'._cancel_event = NoRef]_vars

\* The worker of the run that is active while request_cancel is called.
ActiveWorker == app.runs

\* Worker w has yet to look at _cancel_requested (line 1591).
YetToCheck(w) == app.worker[w].pc \in {"start", "event", "check"}

\* The event of worker w is set, or its set is with the loop of worker w.
Signalled(w) == w \in app.events_set \/ <<w, w>> \in app.loop_calls

\* C37: a cancel request made from the UI thread while a run is active never
\* faults and is never lost, however request_cancel interleaves with the
\* worker's start-up and shutdown: the worker sees _cancel_requested and
\* sets its event itself, or request_cancel has the set scheduled on the
\* worker's loop.  A run that has left its try block by the time the request
\* returns is over and has nothing left to cancel.
C37_CancelNeverLostNeverFaults ==
    /\ app.faults = 0
    /\ app.cancel # "AttributeError"
    /\ app.cancel \in {"not scheduled", "scheduled"} /\ InTry(ActiveWorker) =>
           YetToCheck(ActiveWorker) \/ Signalled(ActiveWorker)

Active(w) == app.worker[w].pc \notin {"none", "done"}

\* C38: at most one generation worker is active at any time; a worker is
\* started only while is_running is false, with is_running set and the
\* cancel flag of an earlier run reset before it starts.
C38_OneWorkerAtATime ==
    /\ [](\A v, w \in Workers : Active(v) /\ Active(w) => v = w)
    /\ [][\A w \in Workers :
            app.worker[w].pc = "none" /\ app'.worker[w].pc # "none" =>
                /\ ~app.is_running
                /\ app'.is_running
                /\ ~app'._cancel_requested]_vars

====
